---- MODULE Spec2Model ----
(***************************************************************************)
(* ReviewIn backend: the relational store (users, classes, class_students, *)
(* assignments, submissions, peer_reviews) and the request handlers of     *)
(* src/backend/routes/*.py as a state machine.                             *)
(*                                                                         *)
(* Conventions                                                             *)
(*  - a table is a function from primary key to row; a nullable column is  *)
(*    a set holding zero or one value (None == {}, Some(v) == {v});        *)
(*  - a Python str is a sequence of one-character strings;                 *)
(*  - a primary key is max(existing)+1, which is what the configured       *)
(*    default store (sqlite, INTEGER PRIMARY KEY) assigns;                 *)
(*  - the class_students association table is a bag of (class_id, user_id) *)
(*    rows, so that a doubly stored enrollment is expressible;             *)
(*  - columns that no handler branches on and no response check reads      *)
(*    (names, subjects, created_at, joined_at) are not stored;             *)
(*  - the caller of a handler is the identity of an accepted bearer token; *)
(*  - resp is the last response, recorded when the code site that answered *)
(*    is one of those the run observes (observed, fixed by the initial     *)
(*    state); the store does not depend on it. Of a response body it keeps *)
(*    the error message and the class views where a property reads them;   *)
(*  - BLOCKLIST is the in-memory set of revoked token identifiers of       *)
(*    routes/auth.py; a bearer token is its jti, its subject and its type; *)
(*  - issued is the sequence of the tokens created so far: a jti is a      *)
(*    uuid4, which does not repeat, and is modelled by the token's place   *)
(*    in that sequence. The server keeps no such record.                   *)
(***************************************************************************)
EXTENDS Integers, Sequences, FiniteSets, TLC

VARIABLES users, classes, class_students, assignments, submissions,
          peer_reviews, clock, inflight, resp, observed, BLOCKLIST, issued

vars == <<users, classes, class_students, assignments, submissions,
          peer_reviews, clock, inflight, resp, observed, BLOCKLIST, issued>>

db == <<users, classes, class_students, assignments, submissions, peer_reviews>>

(* ------------------------------ bounds -------------------------------- *)
MaxUsers == 3
MaxClasses == 2
MaxAssignments == 2
MaxSubmissions == 2
MaxReviews == 2
MaxClock == 3
MaxInflight == 2
LifeMaxClock == 2
LifeMaxReviews == 1
MaxIssued == 4

UserIds == 1..MaxUsers
ClassIds == 1..MaxClasses
AssignmentIds == 1..MaxAssignments
SubmissionIds == 1..MaxSubmissions
ReviewIds == 1..MaxReviews

(* ------------------------- values and strings ------------------------- *)
None == {}
Some(v) == {v}

TEACHER == <<"t", "e", "a", "c", "h", "e", "r">>
STUDENT == <<"s", "t", "u", "d", "e", "n", "t">>

Upper == {"A", "B", "S", "T", "U"}
LowerCh == {"a", "b", "c", "d", "e", "h", "i", "n", "o", "r", "s", "t", "u", "v", "w", "x"}
Digits == {"0", "1", "2", "3", "4", "5", "6", "7", "8", "9"}
Space == {" "}

\* str.lower() on one character
LowerChar(ch) ==
    CASE ch = "A" -> "a"
      [] ch = "B" -> "b"
      [] ch = "S" -> "s"
      [] ch = "T" -> "t"
      [] ch = "U" -> "u"
      [] OTHER -> ch

\* str.lower()
Lower(s) == [i \in 1..Len(s) |-> LowerChar(s[i])]

RECURSIVE LStrip(_)
LStrip(s) == IF s # <<>> /\ Head(s) \in Space THEN LStrip(Tail(s)) ELSE s

RECURSIVE RStrip(_)
RStrip(s) ==
    IF s # <<>> /\ s[Len(s)] \in Space THEN RStrip(SubSeq(s, 1, Len(s) - 1)) ELSE s

\* str.strip()
Strip(s) == RStrip(LStrip(s))

\* `x.strip() or None`
StripOrNone(s) == IF Strip(s) = <<>> THEN None ELSE Some(Strip(s))

\* dict.get(key, default) on a JSON body
Get(data, key, default) == IF key \in DOMAIN data THEN data[key] ELSE default

(* ------------------------------ utils.py ------------------------------ *)
LocalChars == Upper \cup LowerCh \cup Digits \cup {".", "_", "%", "+", "-"}
DomainChars == Upper \cup LowerCh \cup Digits \cup {".", "-"}
Letters == Upper \cup LowerCh

\* re.match(r"^[a-zA-Z0-9._%+-]+@[a-zA-Z0-9.-]+\.[a-zA-Z]{2,}$", email)
validate_email(email) ==
    \E at \in 1..Len(email), dot \in 1..Len(email) :
        /\ email[at] = "@"
        /\ email[dot] = "."
        /\ at > 1
        /\ dot > at + 1
        /\ Len(email) - dot >= 2
        /\ \A i \in 1..(at - 1) : email[i] \in LocalChars
        /\ \A i \in (at + 1)..(dot - 1) : email[i] \in DomainChars
        /\ \A i \in (dot + 1)..Len(email) : email[i] \in Letters

MinPasswordLen == 8

\* validate_password(password)[0]
validate_password(password) ==
    /\ Len(password) >= MinPasswordLen
    /\ \E i \in 1..Len(password) : password[i] \in Upper
    /\ \E i \in 1..Len(password) : password[i] \in LowerCh
    /\ \E i \in 1..Len(password) : password[i] \in Digits

\* bcrypt.generate_password_hash: an opaque value that is not the plaintext
PasswordHash(password) == <<"bcrypt">> \o password

\* teacher_required / student_required: the status the gate answers with, 0 to pass
RoleGate(caller, role) ==
    IF caller \notin DOMAIN users \/ users[caller].role # role THEN 403 ELSE 0

\* validate_json(*required_fields): the status the gate answers with, 0 to pass
ValidateJson(data, required) ==
    IF DOMAIN data = {} THEN 400
    ELSE IF \E f \in required : f \notin DOMAIN data THEN 400
    ELSE 0

(* ------------------------------ storage ------------------------------- *)
Max(S) == CHOOSE m \in S : \A x \in S : x <= m

\* INTEGER PRIMARY KEY of a new row
NewId(table) == Max(DOMAIN table \cup {0}) + 1

Put(table, id, row) == [k \in DOMAIN table \cup {id} |-> IF k = id THEN row ELSE table[k]]

Remove(table, ids) == [k \in DOMAIN table \ ids |-> table[k]]

Pairs == ClassIds \X UserIds

\* fault variant: the membership test answers yes for every pair
Enrolled_Always(c, u) == <<c, u>> \in ClassIds \X UserIds

\* `user in cls.students`
Enrolled(c, u) == <<c, u>> \in Pairs /\ class_students[<<c, u>>] > 0

\* fault variant: class_students declared without a primary key
EnrollmentKeyFree_NoKey(c, u) == <<c, u>> \in Pairs

\* the composite primary key (class_id, user_id) of class_students
EnrollmentKeyFree(c, u) == class_students[<<c, u>>] = 0

\* INSERT INTO class_students
InsertEnrollment(c, u) == [class_students EXCEPT ![<<c, u>>] = @ + 1]

\* fault variant: the delete without its user_id condition
DeleteEnrollment_WholeClass(c, u) ==
    [p \in Pairs |-> IF p[1] = c THEN 0 ELSE class_students[p]]

\* DELETE FROM class_students WHERE class_id = c AND user_id = u
DeleteEnrollment(c, u) == [class_students EXCEPT ![<<c, u>>] = 0]

(* ------------------------------ responses ----------------------------- *)
\* a response: the code site that produced it (a handler, or the decorator that
\* answered in its place) and its HTTP status
Unobserved ==
    [op |-> "unobserved", status |-> 0, caller |-> 0, pending |-> {},
     error |-> "", classes |-> {}]

\* jsonify({"error": error, "class" or "classes": views}), status
Reply(op, status, error, views) ==
    IF op \in observed
    THEN [op |-> op, status |-> status, caller |-> 0, pending |-> {},
          error |-> error, classes |-> views]
    ELSE Unobserved

Response(op, status) == Reply(op, status, "", {})

\* the site that answers a request to handler `op` wrapped in a role decorator and,
\* where required # {}, in validate_json(*required)
Site(op, caller, role, data, required) ==
    IF RoleGate(caller, role) # 0
    THEN (IF role = TEACHER THEN "teacher_required" ELSE "student_required")
    ELSE IF required # {} /\ ValidateJson(data, required) # 0 THEN "validate_json"
    ELSE op

(* ------------------------------ models.py ----------------------------- *)
PasscodeLen == 6

PasscodeLast == {"A"}

\* fault variant: a passcode drawn with k=5
GeneratePasscode_Short == {<<"A", "A", "A", "A", "A">>}

\* _generate_passcode(): the values random.choices may return, cut down to
\* those ending in a character of PasscodeLast
GeneratePasscode == {[i \in 1..PasscodeLen |-> IF i < PasscodeLen THEN "A" ELSE ch] : ch \in PasscodeLast}

\* Class.to_dict of row c of table cls: id and ownerId, the passcode when
\* include_passcode, the ids of the students when include_students
to_dict(cls, c, include_passcode, include_students) ==
    [id |-> c,
     ownerId |-> cls[c].owner_id,
     passcode |-> IF include_passcode THEN Some(cls[c].passcode) ELSE None,
     students |-> IF include_students
                  THEN Some({u \in UserIds : class_students[<<c, u>>] > 0})
                  ELSE None]

\* Class.assignments
AssignmentsOf(cs) == {a \in DOMAIN assignments : assignments[a].class_id \in cs}

\* Assignment.submissions
SubmissionsOf(as) == {s \in DOMAIN submissions : submissions[s].assignment_id \in as}

\* Submission.peer_reviews
ReviewsOf(ss) == {r \in DOMAIN peer_reviews : peer_reviews[r].submission_id \in ss}

\* User.enrolled_classes: class_students joined with classes
EnrolledClasses(u) == {c \in DOMAIN classes : Enrolled(c, u)}

\* session.delete(cls): cascade="all, delete-orphan" on Class.assignments, and the
\* class_students rows of the deleted class
CascadeDeleteClass(c) ==
    /\ classes' = Remove(classes, {c})
    /\ class_students' = [p \in Pairs |-> IF p[1] = c THEN 0 ELSE class_students[p]]
    /\ assignments' = Remove(assignments, AssignmentsOf({c}))
    /\ submissions' = Remove(submissions, SubmissionsOf(AssignmentsOf({c})))
    /\ peer_reviews' = Remove(peer_reviews, ReviewsOf(SubmissionsOf(AssignmentsOf({c}))))

\* session.delete(assignment): cascade="all, delete-orphan" on Assignment.submissions
CascadeDeleteAssignment(a) ==
    /\ assignments' = Remove(assignments, {a})
    /\ submissions' = Remove(submissions, SubmissionsOf({a}))
    /\ peer_reviews' = Remove(peer_reviews, ReviewsOf(SubmissionsOf({a})))

\* fault variant: Submission.peer_reviews declared without a cascade
CascadeDeleteSubmission_KeepReviews(s) ==
    /\ submissions' = Remove(submissions, {s})
    /\ peer_reviews' = peer_reviews

\* session.delete(submission): cascade="all, delete-orphan" on Submission.peer_reviews
CascadeDeleteSubmission(s) ==
    /\ submissions' = Remove(submissions, {s})
    /\ peer_reviews' = Remove(peer_reviews, ReviewsOf({s}))

(* ------------------------------ init_db.py ---------------------------- *)
SeedTeacherEmail ==
    <<"t", "e", "a", "c", "h", "e", "r", "@", "r", "e", "v", "i", "e", "w", "i", "n", ".", "d", "e", "v">>

SeedStudentEmail ==
    <<"s", "t", "u", "d", "e", "n", "t", "@", "r", "e", "v", "i", "e", "w", "i", "n", ".", "d", "e", "v">>

SeedTeacherPassword == <<"T", "e", "a", "c", "h", "e", "r", "1">>

SeedStudentPassword == <<"S", "t", "u", "d", "e", "n", "t", "1">>

SeedTitle == <<"H", "e", "l", "l", "o">>

SeedDescription == <<"W", "r", "i", "t", "e">>

\* the code sites that answer requests
Sites ==
    {"teacher_required", "student_required", "validate_json", "register",
     "create_class", "delete_class", "join_class", "leave_class",
     "create_assignment", "delete_assignment", "create_submission",
     "update_submission", "delete_submission", "create_peer_review",
     "get_pending_reviews", "list_classes", "get_class"}

\* init_database(seed=False): db.create_all()
Empty ==
    /\ users = <<>>
    /\ classes = <<>>
    /\ class_students = [p \in Pairs |-> 0]
    /\ assignments = <<>>
    /\ submissions = <<>>
    /\ peer_reviews = <<>>
    /\ clock = 1
    /\ inflight = <<>>
    /\ resp = Unobserved
    /\ BLOCKLIST = {}
    /\ issued = <<>>

\* init_database(seed=True): db.create_all(); _seed_data()
Seeded ==
    /\ users = <<[email |-> SeedTeacherEmail,
                  password_hash |-> PasswordHash(SeedTeacherPassword),
                  role |-> TEACHER],
                 [email |-> SeedStudentEmail,
                  password_hash |-> PasswordHash(SeedStudentPassword),
                  role |-> STUDENT]>>
    /\ \E pc \in GeneratePasscode : classes = <<[owner_id |-> 1, passcode |-> pc]>>
    /\ class_students = [p \in Pairs |-> IF p = <<1, 2>> THEN 1 ELSE 0]
    /\ assignments = <<[title |-> SeedTitle, description |-> Some(SeedDescription),
                        class_id |-> 1]>>
    /\ submissions = <<>>
    /\ peer_reviews = <<>>
    /\ clock = 1
    /\ inflight = <<>>
    /\ resp = Unobserved
    /\ BLOCKLIST = {}
    /\ issued = <<>>

(* ------------------------------ bearer tokens ------------------------- *)
\* The access tokens of a run: token k has jti k and subject TokenSub[k]. Tokens are
\* signed, not stored: one is accepted whether or not its subject is a user.
TokenSub == <<1, 2, 2, 3>>

\* a request without Authorization header
NoToken == [jti |-> 0, sub |-> 0, type |-> "none"]

Tokens ==
    {[jti |-> k, sub |-> TokenSub[k], type |-> "access"] : k \in DOMAIN TokenSub}
    \cup {NoToken}

\* create_access_token(identity) and create_refresh_token(identity): the token
\* created when `created` tokens have been created before it
create_token(created, identity, type) ==
    [jti |-> Len(created) + 1, sub |-> identity, type |-> type]

\* the row of `issued` that records a token
Issue(tok) == [sub |-> tok.sub, type |-> tok.type]

\* the token recorded at place k of `issued`
IssuedToken(k) == [jti |-> k, sub |-> issued[k].sub, type |-> issued[k].type]

\* login and register: the access token and then the refresh token of user u
IssuePair(u) ==
    issued' = issued \o <<Issue(create_token(issued, u, "access")),
                           Issue(create_token(issued, u, "refresh"))>>

\* fault variant: no token_in_blocklist_loader registered
is_token_revoked_Never(tok) == tok.jti \in {}

\* fault variant: a logout that ends the session, the refresh token created with the
\* revoked access token being refused as well
is_token_revoked_Session(tok) ==
    tok.jti \in BLOCKLIST \/ (tok.type = "refresh" /\ tok.jti - 1 \in BLOCKLIST)

\* is_token_revoked(jwt_header, jwt_payload)
is_token_revoked(tok) == tok.jti \in BLOCKLIST

\* jwt_required(refresh=...) / verify_jwt_in_request(): 0 when the token is
\* accepted, else the status the extension answers with: 401 without a token, 422
\* for a token of the other type, 401 for a revoked one
JwtStatusOf(tok, type) ==
    IF tok = NoToken THEN 401
    ELSE IF tok.type # type THEN 422
    ELSE IF is_token_revoked(tok) THEN 401
    ELSE 0

\* jwt_required()
JwtStatus(tok) == JwtStatusOf(tok, "access")

\* the message of that answer
JwtError(tok) ==
    IF tok = NoToken THEN "Missing Authorization Header"
    ELSE IF is_token_revoked(tok) THEN "Token has been revoked"
    ELSE "Wrong token type"

\* the answer to a request whose token is not accepted: the view does not run
Rejected(tok) ==
    /\ resp' = Reply("jwt_required", JwtStatus(tok), JwtError(tok), {})
    /\ UNCHANGED <<users, classes, class_students, assignments, submissions,
                   peer_reviews, clock, inflight, observed, issued, BLOCKLIST>>

(* ------------------------------ routes/auth.py ------------------------ *)
\* fault variant: register without the lookup of the address
EmailRegistered_Never(email) == Len(email) = 0

\* User.query.filter_by(email=email).first()
EmailRegistered(email) == \E u \in DOMAIN users : users[u].email = email

\* register: the status it answers with
RegisterStatus(data) ==
    IF ValidateJson(data, {"name", "email", "password", "role"}) # 0 THEN 400
    ELSE IF Lower(Strip(data.role)) \notin {TEACHER, STUDENT} THEN 400
    ELSE IF ~validate_email(Lower(Strip(data.email))) THEN 400
    ELSE IF ~validate_password(data.password) THEN 400
    ELSE IF EmailRegistered(Lower(Strip(data.email))) THEN 409
    ELSE 201

Register(data) ==
    /\ LET st == RegisterStatus(data) IN
        /\ resp' = Response(IF ValidateJson(data, {"name", "email", "password", "role"}) # 0
                             THEN "validate_json" ELSE "register", st)
        /\ IF st = 201
           THEN /\ users' = Put(users, NewId(users),
                                [email |-> Lower(Strip(data.email)),
                                 password_hash |-> PasswordHash(data.password),
                                 role |-> Lower(Strip(data.role))])
                /\ IssuePair(NewId(users))
           ELSE UNCHANGED <<users, issued>>
    /\ UNCHANGED <<classes, class_students, assignments, submissions, peer_reviews,
                   clock, inflight, observed, BLOCKLIST>>

\* fault variant: a check that accepts every password
check_password_hash_Any(hash, password) == Len(hash) > 0

\* bcrypt.check_password_hash(user.password_hash, password)
check_password_hash(hash, password) == hash = PasswordHash(password)

\* User.query.filter_by(email=email).first(): the ids with that email
UsersByEmail(email) == {u \in DOMAIN users : users[u].email = email}

\* login: the status it answers with
LoginStatus(data) ==
    IF ValidateJson(data, {"email", "password"}) # 0 THEN 400
    ELSE IF \A u \in UsersByEmail(Lower(Strip(data.email))) :
                ~check_password_hash(users[u].password_hash, data.password) THEN 401
    ELSE 200

login(data) ==
    /\ resp' =
          IF LoginStatus(data) = 200 /\ "login" \in observed
          THEN [Reply("login", 200, "", {}) EXCEPT
                   !.caller = CHOOSE u \in UsersByEmail(Lower(Strip(data.email))) : TRUE]
          ELSE IF LoginStatus(data) = 401
          THEN Reply("login", 401, "Invalid email or password", {})
          ELSE Response("validate_json", LoginStatus(data))
    /\ IF LoginStatus(data) = 200
       THEN IssuePair(CHOOSE u \in UsersByEmail(Lower(Strip(data.email))) : TRUE)
       ELSE issued' = issued
    /\ UNCHANGED <<users, classes, class_students, assignments, submissions,
                   peer_reviews, clock, inflight, observed, BLOCKLIST>>

\* logout, reached with an accepted token: BLOCKLIST.add(jti)
logout(tok) ==
    /\ BLOCKLIST' = BLOCKLIST \cup {tok.jti}
    /\ resp' = Response("logout", 200)
    /\ UNCHANGED <<users, classes, class_students, assignments, submissions,
                   peer_reviews, clock, inflight, observed, issued>>

\* refresh, behind jwt_required(refresh=True): a new access token for the subject
\* of the refresh token
refresh(tok) ==
    /\ IF JwtStatusOf(tok, "refresh") = 0
       THEN /\ issued' = Append(issued, Issue(create_token(issued, tok.sub, "access")))
            /\ resp' = [Reply("refresh", 200, "", {}) EXCEPT
                            !.caller = IF "refresh" \in observed THEN tok.sub ELSE 0]
       ELSE /\ issued' = issued
            /\ resp' = Reply("jwt_required", JwtStatusOf(tok, "refresh"), JwtError(tok), {})
    /\ UNCHANGED <<users, classes, class_students, assignments, submissions,
                   peer_reviews, clock, inflight, observed, BLOCKLIST>>

\* get_session, reached with an accepted token
get_session(tok) ==
    /\ resp' = IF tok.sub \notin DOMAIN users
               THEN Reply("get_session", 404, "User not found", {})
               ELSE [Reply("get_session", 200, "", {}) EXCEPT
                        !.caller = IF "get_session" \in observed THEN tok.sub ELSE 0]
    /\ UNCHANGED <<users, classes, class_students, assignments, submissions,
                   peer_reviews, clock, inflight, observed, issued, BLOCKLIST>>

(* ------------------------------ routes/classes.py --------------------- *)
\* create_class: the status it answers with
CreateClassStatus(caller, data) ==
    IF RoleGate(caller, TEACHER) # 0 THEN 403
    ELSE IF ValidateJson(data, {"name", "subject"}) # 0 THEN 400
    ELSE 201

CreateClass(caller, data) ==
    /\ LET st == CreateClassStatus(caller, data) IN
        IF st = 201
        THEN /\ \E pc \in GeneratePasscode :
                    classes' = Put(classes, NewId(classes),
                                   [owner_id |-> caller, passcode |-> pc])
             /\ resp' = Reply("create_class", 201, "",
                              {to_dict(classes', NewId(classes), TRUE, FALSE)})
        ELSE /\ classes' = classes
             /\ resp' = Response(Site("create_class", caller, TEACHER, data,
                                      {"name", "subject"}), st)
    /\ UNCHANGED <<users, class_students, assignments, submissions, peer_reviews,
                   clock, inflight, observed, issued, BLOCKLIST>>

\* fault variant: delete_class without the owner test
DeleteClassStatus_NoOwnerCheck(caller, c) ==
    IF RoleGate(caller, TEACHER) # 0 THEN 403
    ELSE IF c \notin DOMAIN classes THEN 404
    ELSE 200

\* delete_class: the status it answers with
DeleteClassStatus(caller, c) ==
    IF RoleGate(caller, TEACHER) # 0 THEN 403
    ELSE IF c \notin DOMAIN classes THEN 404
    ELSE IF classes[c].owner_id # caller THEN 403
    ELSE 200

DeleteClass(caller, c) ==
    LET st == DeleteClassStatus(caller, c) IN
        /\ resp' = Response(Site("delete_class", caller, TEACHER, <<>>, {}), st)
        /\ IF st = 200
           THEN CascadeDeleteClass(c)
           ELSE UNCHANGED <<classes, class_students, assignments, submissions, peer_reviews>>
        /\ UNCHANGED <<users, clock, inflight, observed, issued, BLOCKLIST>>

\* fault variant: join_class without the passcode test
JoinClassCheck_NoPasscode(caller, data) ==
    IF RoleGate(caller, STUDENT) # 0 THEN 403
    ELSE IF ValidateJson(data, {"classId", "passcode"}) # 0 THEN 400
    ELSE IF data.classId \notin DOMAIN classes THEN 404
    ELSE IF Enrolled(data.classId, caller) THEN 409
    ELSE 0

\* join_class up to and including the `user in cls.students` test: the status it
\* answers with, 0 to go on to the insert
JoinClassCheck(caller, data) ==
    IF RoleGate(caller, STUDENT) # 0 THEN 403
    ELSE IF ValidateJson(data, {"classId", "passcode"}) # 0 THEN 400
    ELSE IF data.classId \notin DOMAIN classes THEN 404
    ELSE IF classes[data.classId].passcode # Strip(data.passcode) THEN 401
    ELSE IF Enrolled(data.classId, caller) THEN 409
    ELSE 0

\* cls.students.append(user); commit() under handle_db_errors: the insert is refused
\* by the primary key of class_students, and the handler then answers 500
JoinClassInsertStatus(c, u) == IF EnrollmentKeyFree(c, u) THEN 200 ELSE 500

JoinClassInsert(c, u) ==
    IF JoinClassInsertStatus(c, u) = 200
    THEN class_students' = InsertEnrollment(c, u)
    ELSE class_students' = class_students

\* the answer after the insert: the class without passcode and students, or the
\* 500 of handle_db_errors
JoinClassReply(c, u) ==
    IF JoinClassInsertStatus(c, u) = 200
    THEN Reply("join_class", 200, "", {to_dict(classes, c, FALSE, FALSE)})
    ELSE Response("join_class", 500)

JoinClass(caller, data) ==
    LET st == JoinClassCheck(caller, data) IN
        /\ IF st = 0
           THEN /\ JoinClassInsert(data.classId, caller)
                /\ resp' = JoinClassReply(data.classId, caller)
           ELSE /\ class_students' = class_students
                /\ resp' = Response(Site("join_class", caller, STUDENT, data, {"classId", "passcode"}), st)
        /\ UNCHANGED <<users, classes, assignments, submissions, peer_reviews,
                       clock, inflight, observed, issued, BLOCKLIST>>

\* leave_class: the status it answers with
LeaveClassStatus(caller, c) ==
    IF RoleGate(caller, STUDENT) # 0 THEN 403
    ELSE IF c \notin DOMAIN classes THEN 404
    ELSE IF ~Enrolled(c, caller) THEN 400
    ELSE 200

LeaveClass(caller, c) ==
    LET st == LeaveClassStatus(caller, c) IN
        /\ resp' = Response(Site("leave_class", caller, STUDENT, <<>>, {}), st)
        /\ IF st = 200
           THEN class_students' = DeleteEnrollment(c, caller)
           ELSE class_students' = class_students
        /\ UNCHANGED <<users, classes, assignments, submissions, peer_reviews,
                       clock, inflight, observed, issued, BLOCKLIST>>

\* list_classes: the status it answers with
ListClassesStatus(caller) == IF caller \notin DOMAIN users THEN 404 ELSE 200

\* request.args.get("role", user.role)
RoleFilter(caller, args) == IF args = None THEN users[caller].role ELSE CHOOSE r \in args : TRUE

\* the class views list_classes returns
ListClassesViews(caller, args) ==
    IF RoleFilter(caller, args) = TEACHER
    THEN {to_dict(classes, c, TRUE, TRUE) : c \in {x \in DOMAIN classes : classes[x].owner_id = caller}}
    ELSE {to_dict(classes, c, FALSE, FALSE) : c \in EnrolledClasses(caller)}

list_classes(caller, args) ==
    /\ resp' = IF ListClassesStatus(caller) = 200
               THEN Reply("list_classes", 200, "", ListClassesViews(caller, args))
               ELSE Reply("list_classes", 404, "User not found", {})
    /\ UNCHANGED <<users, classes, class_students, assignments, submissions,
                   peer_reviews, clock, inflight, observed, issued, BLOCKLIST>>

\* get_class: the status it answers with
GetClassStatus(caller, c) ==
    IF c \notin DOMAIN classes THEN 404
    ELSE IF classes[c].owner_id # caller /\ ~(caller \in DOMAIN users /\ Enrolled(c, caller)) THEN 403
    ELSE 200

\* fault variant: every permitted caller treated as the owner
IsOwner_Always(c, caller) == c \in DOMAIN classes

\* is_owner = cls.owner_id == user_id
IsOwner(c, caller) == classes[c].owner_id = caller

get_class(caller, c) ==
    /\ resp' = IF GetClassStatus(caller, c) = 200
               THEN Reply("get_class", 200, "",
                          {to_dict(classes, c, IsOwner(c, caller), IsOwner(c, caller))})
               ELSE Response("get_class", GetClassStatus(caller, c))
    /\ UNCHANGED <<users, classes, class_students, assignments, submissions,
                   peer_reviews, clock, inflight, observed, issued, BLOCKLIST>>

(* ------------------------------ routes/assignments.py ----------------- *)
\* create_assignment: the status it answers with
CreateAssignmentStatus(caller, c, data) ==
    IF RoleGate(caller, TEACHER) # 0 THEN 403
    ELSE IF ValidateJson(data, {"title"}) # 0 THEN 400
    ELSE IF c \notin DOMAIN classes THEN 404
    ELSE IF classes[c].owner_id # caller THEN 403
    ELSE 201

CreateAssignment(caller, c, data) ==
    /\ LET st == CreateAssignmentStatus(caller, c, data) IN
        /\ resp' = Response(Site("create_assignment", caller, TEACHER, data, {"title"}), st)
        /\ IF st = 201
           THEN assignments' = Put(assignments, NewId(assignments),
                                   [title |-> Strip(data.title),
                                    description |-> StripOrNone(Get(data, "description", <<>>)),
                                    class_id |-> c])
           ELSE assignments' = assignments
    /\ UNCHANGED <<users, classes, class_students, submissions, peer_reviews,
                   clock, inflight, observed, issued, BLOCKLIST>>

\* a JSON value that is a string: the others have no strip()
IsStr(j) == j.t = "str"

\* update_assignment lines 78-84, its assignments in their order: the row as far as
\* it was assigned, and whether a strip() raised. _parse_date raises nothing and
\* due_date is not stored.
UpdateAssignmentRun(a, data) ==
    LET titled == "title" \in DOMAIN data
        described == "description" \in DOMAIN data
        raised1 == titled /\ ~IsStr(data.title)
        row1 == IF titled /\ ~raised1
                THEN [assignments[a] EXCEPT !.title = Strip(data.title.v)]
                ELSE assignments[a]
        raised2 == ~raised1 /\ described /\ ~IsStr(data.description)
        row2 == IF described /\ ~raised1 /\ ~raised2
                THEN [row1 EXCEPT !.description = StripOrNone(data.description.v)]
                ELSE row1
    IN [row |-> row2, raised |-> raised1 \/ raised2]

\* fault variant: update_assignment without the owner test
UpdateAssignmentStatus_NoOwnerCheck(caller, c, a, data) ==
    IF RoleGate(caller, TEACHER) # 0 THEN 403
    ELSE IF c \notin DOMAIN classes THEN 403
    ELSE IF a \notin DOMAIN assignments \/ assignments[a].class_id # c THEN 404
    ELSE IF UpdateAssignmentRun(a, data).raised THEN 500
    ELSE 200

\* update_assignment under handle_db_errors: the status it answers with
UpdateAssignmentStatus(caller, c, a, data) ==
    IF RoleGate(caller, TEACHER) # 0 THEN 403
    ELSE IF c \notin DOMAIN classes \/ classes[c].owner_id # caller THEN 403
    ELSE IF a \notin DOMAIN assignments \/ assignments[a].class_id # c THEN 404
    ELSE IF UpdateAssignmentRun(a, data).raised THEN 500
    ELSE 200

\* fault variant: an except branch that commits what the session holds
Rollback_Commit(before, dirty) == dirty

\* db.session.rollback() of handle_db_errors: the table as it was before the
\* request, whatever the session held
Rollback(before, dirty) == before

UpdateAssignment(caller, c, a, data) ==
    /\ LET st == UpdateAssignmentStatus(caller, c, a, data) IN
        /\ resp' = Response(Site("update_assignment", caller, TEACHER, <<>>, {}), st)
        /\ assignments' =
              IF st = 200
              THEN [assignments EXCEPT ![a] = UpdateAssignmentRun(a, data).row]
              ELSE IF st = 500
              THEN Rollback(assignments,
                            [assignments EXCEPT ![a] = UpdateAssignmentRun(a, data).row])
              ELSE assignments
    /\ UNCHANGED <<users, classes, class_students, submissions, peer_reviews,
                   clock, inflight, observed, issued, BLOCKLIST>>

\* delete_assignment: the status it answers with
DeleteAssignmentStatus(caller, c, a) ==
    IF RoleGate(caller, TEACHER) # 0 THEN 403
    ELSE IF c \notin DOMAIN classes \/ classes[c].owner_id # caller THEN 403
    ELSE IF a \notin DOMAIN assignments \/ assignments[a].class_id # c THEN 404
    ELSE 200

DeleteAssignment(caller, c, a) ==
    LET st == DeleteAssignmentStatus(caller, c, a) IN
        /\ resp' = Response(Site("delete_assignment", caller, TEACHER, <<>>, {}), st)
        /\ IF st = 200
           THEN CascadeDeleteAssignment(a)
           ELSE UNCHANGED <<assignments, submissions, peer_reviews>>
        /\ UNCHANGED <<users, classes, class_students, clock, inflight, observed, issued, BLOCKLIST>>


(* ------------------------------ routes/submissions.py ----------------- *)
\* fault variant: the lookup with its two columns exchanged
ExistingSubmission_SwappedColumns(u, a) ==
    \E s \in DOMAIN submissions :
        submissions[s].student_id = a /\ submissions[s].assignment_id = u

\* Submission.query.filter_by(student_id=user_id, assignment_id=assignment_id).first()
ExistingSubmission(u, a) ==
    \E s \in DOMAIN submissions :
        submissions[s].student_id = u /\ submissions[s].assignment_id = a

\* fault variant: the chain test without its class condition
SubmissionNotInChain_AssignmentOnly(c, a, s) ==
    \/ s \notin DOMAIN submissions
    \/ submissions[s].assignment_id # a

\* submission missing, or not under the assignment and class the path names
SubmissionNotInChain(c, a, s) ==
    \/ s \notin DOMAIN submissions
    \/ submissions[s].assignment_id # a
    \/ assignments[submissions[s].assignment_id].class_id # c

\* fault variant: create_submission without the test of the assignment's class
CreateSubmissionCheck_AnyClass(caller, c, a) ==
    IF RoleGate(caller, STUDENT) # 0 THEN 403
    ELSE IF c \notin DOMAIN classes THEN 404
    ELSE IF ~Enrolled(c, caller) THEN 403
    ELSE IF a \notin DOMAIN assignments THEN 404
    ELSE IF ExistingSubmission(caller, a) THEN 409
    ELSE 0

\* create_submission up to and including the existing-submission lookup: the status
\* it answers with, 0 to go on to the insert
CreateSubmissionCheck(caller, c, a) ==
    IF RoleGate(caller, STUDENT) # 0 THEN 403
    ELSE IF c \notin DOMAIN classes THEN 404
    ELSE IF ~Enrolled(c, caller) THEN 403
    ELSE IF a \notin DOMAIN assignments \/ assignments[a].class_id # c THEN 404
    ELSE IF ExistingSubmission(caller, a) THEN 409
    ELSE 0

\* Submission(...) as create_submission builds it
NewSubmission(caller, a, data) ==
    [content |-> StripOrNone(Get(data, "content", <<>>)),
     file_name |-> IF "fileName" \in DOMAIN data THEN Some(data.fileName) ELSE None,
     file_size |-> IF "fileSize" \in DOMAIN data THEN Some(data.fileSize) ELSE None,
     student_id |-> caller,
     assignment_id |-> a,
     submitted_at |-> clock,
     grade |-> None,
     feedback |-> None,
     graded_at |-> None]

\* session.add(submission); commit(): the submissions table has no unique constraint
CreateSubmissionInsert(caller, a, data) ==
    /\ submissions' = Put(submissions, NewId(submissions), NewSubmission(caller, a, data))
    /\ clock' = clock + 1

CreateSubmission(caller, c, a, data) ==
    /\ LET st == CreateSubmissionCheck(caller, c, a) IN
        IF st = 0
        THEN /\ CreateSubmissionInsert(caller, a, data)
             /\ resp' = Response("create_submission", 201)
        ELSE /\ UNCHANGED <<submissions, clock>>
             /\ resp' = Response(Site("create_submission", caller, STUDENT, <<>>, {}), st)
    /\ UNCHANGED <<users, classes, class_students, assignments, peer_reviews, inflight, observed, issued, BLOCKLIST>>

\* fault variant: update_submission without the author test
UpdateSubmissionStatus_NoAuthorTest(caller, c, a, s) ==
    IF RoleGate(caller, STUDENT) # 0 THEN 403
    ELSE IF SubmissionNotInChain(c, a, s) THEN 404
    ELSE 200

\* update_submission: the status it answers with
UpdateSubmissionStatus(caller, c, a, s) ==
    IF RoleGate(caller, STUDENT) # 0 THEN 403
    ELSE IF SubmissionNotInChain(c, a, s) THEN 404
    ELSE IF submissions[s].student_id # caller THEN 403
    ELSE 200

\* fault variant: an update that builds the row anew, as create_submission does
UpdatedSubmission_Ungraded(s, data) ==
    [submissions[s] EXCEPT
        !.content = IF "content" \in DOMAIN data THEN StripOrNone(data.content) ELSE @,
        !.file_name = IF "fileName" \in DOMAIN data THEN Some(data.fileName) ELSE @,
        !.file_size = IF "fileSize" \in DOMAIN data THEN Some(data.fileSize) ELSE @,
        !.submitted_at = clock,
        !.grade = None,
        !.feedback = None,
        !.graded_at = None]

\* the row update_submission commits
UpdatedSubmission(s, data) ==
    [submissions[s] EXCEPT
        !.content = IF "content" \in DOMAIN data THEN StripOrNone(data.content) ELSE @,
        !.file_name = IF "fileName" \in DOMAIN data THEN Some(data.fileName) ELSE @,
        !.file_size = IF "fileSize" \in DOMAIN data THEN Some(data.fileSize) ELSE @,
        !.submitted_at = clock]

UpdateSubmission(caller, c, a, s, data) ==
    /\ LET st == UpdateSubmissionStatus(caller, c, a, s) IN
        /\ resp' = Response(Site("update_submission", caller, STUDENT, <<>>, {}), st)
        /\ IF st = 200
           THEN /\ submissions' = [submissions EXCEPT ![s] = UpdatedSubmission(s, data)]
                /\ clock' = clock + 1
           ELSE UNCHANGED <<submissions, clock>>
    /\ UNCHANGED <<users, classes, class_students, assignments, peer_reviews, inflight, observed, issued, BLOCKLIST>>

\* delete_submission: the status it answers with
DeleteSubmissionStatus(caller, c, a, s) ==
    IF RoleGate(caller, STUDENT) # 0 THEN 403
    ELSE IF SubmissionNotInChain(c, a, s) THEN 404
    ELSE IF submissions[s].student_id # caller THEN 403
    ELSE 200

DeleteSubmission(caller, c, a, s) ==
    LET st == DeleteSubmissionStatus(caller, c, a, s) IN
        /\ resp' = Response(Site("delete_submission", caller, STUDENT, <<>>, {}), st)
        /\ IF st = 200
           THEN CascadeDeleteSubmission(s)
           ELSE UNCHANGED <<submissions, peer_reviews>>
        /\ UNCHANGED <<users, classes, class_students, assignments, clock, inflight, observed, issued, BLOCKLIST>>

\* A JSON value that is a string or a number, as the grade field may be
JsonStr(v) == [t |-> "str", v |-> v]

JsonInt(n) == [t |-> "int", n |-> n]

\* str(n) of a non-negative integer
RECURSIVE IntToStr(_)
IntToStr(n) ==
    IF n < 10 THEN <<ToString(n)>> ELSE IntToStr(n \div 10) \o <<ToString(n % 10)>>

\* str(value)
Str(j) == IF j.t = "int" THEN IntToStr(j.n) ELSE j.v

\* fault variant: grade_submission without the owner test
GradeSubmissionStatus_NoOwnerCheck(caller, c, a, s, data) ==
    IF RoleGate(caller, TEACHER) # 0 THEN 403
    ELSE IF ValidateJson(data, {"grade"}) # 0 THEN 400
    ELSE IF c \notin DOMAIN classes THEN 403
    ELSE IF SubmissionNotInChain(c, a, s) THEN 404
    ELSE 200

\* grade_submission: the status it answers with
GradeSubmissionStatus(caller, c, a, s, data) ==
    IF RoleGate(caller, TEACHER) # 0 THEN 403
    ELSE IF ValidateJson(data, {"grade"}) # 0 THEN 400
    ELSE IF c \notin DOMAIN classes \/ classes[c].owner_id # caller THEN 403
    ELSE IF SubmissionNotInChain(c, a, s) THEN 404
    ELSE 200

\* fault variant: the feedback kept when the body carries none
GradedSubmission_KeepFeedback(s, data) ==
    [submissions[s] EXCEPT
        !.grade = Some(Strip(Str(data.grade))),
        !.feedback = IF "feedback" \in DOMAIN data THEN StripOrNone(data.feedback) ELSE @,
        !.graded_at = Some(clock)]

\* the row grade_submission commits
GradedSubmission(s, data) ==
    [submissions[s] EXCEPT
        !.grade = Some(Strip(Str(data.grade))),
        !.feedback = StripOrNone(Get(data, "feedback", <<>>)),
        !.graded_at = Some(clock)]

grade_submission(caller, c, a, s, data) ==
    /\ LET st == GradeSubmissionStatus(caller, c, a, s, data) IN
        /\ resp' = Response(Site("grade_submission", caller, TEACHER, data, {"grade"}), st)
        /\ IF st = 200
           THEN /\ submissions' = [submissions EXCEPT ![s] = GradedSubmission(s, data)]
                /\ clock' = clock + 1
           ELSE UNCHANGED <<submissions, clock>>
    /\ UNCHANGED <<users, classes, class_students, assignments, peer_reviews, inflight,
                   observed, issued, BLOCKLIST>>

(* ------------------------------ routes/peer_reviews.py ---------------- *)
\* fault variant: the lookup with its two columns exchanged
ExistingReview_SwappedColumns(u, s) ==
    \E r \in DOMAIN peer_reviews :
        peer_reviews[r].reviewer_id = s /\ peer_reviews[r].submission_id = u

\* PeerReview.query.filter_by(reviewer_id=user_id, submission_id=submission_id).first()
ExistingReview(u, s) ==
    \E r \in DOMAIN peer_reviews :
        peer_reviews[r].reviewer_id = u /\ peer_reviews[r].submission_id = s

\* fault variant: the submission's id compared in place of its author
IsOwnSubmission_ById(u, s) == s = u

\* `submission.student_id == user_id`
IsOwnSubmission(u, s) == submissions[s].student_id = u

\* fault variant: create_peer_review without the enrollment test
CreatePeerReviewCheck_NoEnrollment(caller, c, a, s, data) ==
    IF RoleGate(caller, STUDENT) # 0 THEN 403
    ELSE IF ValidateJson(data, {"content"}) # 0 THEN 400
    ELSE IF c \notin DOMAIN classes THEN 404
    ELSE IF SubmissionNotInChain(c, a, s) THEN 404
    ELSE IF IsOwnSubmission(caller, s) THEN 400
    ELSE IF ExistingReview(caller, s) THEN 409
    ELSE 0

\* create_peer_review up to and including the existing-review lookup: the status it
\* answers with, 0 to go on to the insert
CreatePeerReviewCheck(caller, c, a, s, data) ==
    IF RoleGate(caller, STUDENT) # 0 THEN 403
    ELSE IF ValidateJson(data, {"content"}) # 0 THEN 400
    ELSE IF c \notin DOMAIN classes THEN 404
    ELSE IF ~Enrolled(c, caller) THEN 403
    ELSE IF SubmissionNotInChain(c, a, s) THEN 404
    ELSE IF IsOwnSubmission(caller, s) THEN 400
    ELSE IF ExistingReview(caller, s) THEN 409
    ELSE 0

\* session.add(review); commit(): the peer_reviews table has no unique constraint
CreatePeerReviewInsert(caller, s, data) ==
    peer_reviews' = Put(peer_reviews, NewId(peer_reviews),
                        [content |-> Strip(data.content),
                         reviewer_id |-> caller,
                         submission_id |-> s])

CreatePeerReview(caller, c, a, s, data) ==
    /\ LET st == CreatePeerReviewCheck(caller, c, a, s, data) IN
        IF st = 0
        THEN /\ CreatePeerReviewInsert(caller, s, data)
             /\ resp' = Response("create_peer_review", 201)
        ELSE /\ peer_reviews' = peer_reviews
             /\ resp' = Response(Site("create_peer_review", caller, STUDENT, data, {"content"}), st)
    /\ UNCHANGED <<users, classes, class_students, assignments, submissions,
                   clock, inflight, observed, issued, BLOCKLIST>>

\* get_pending_reviews: the status it answers with
GetPendingReviewsStatus(caller) ==
    IF RoleGate(caller, STUDENT) # 0 THEN 403
    ELSE IF caller \notin DOMAIN users THEN 404
    ELSE 200

\* fault variant: the loops without the own-submission test
PendingReviews_WithOwn(u) ==
    UNION {UNION {{s \in SubmissionsOf({a}) : ~ExistingReview(u, s)}
                  : a \in AssignmentsOf({c})}
           : c \in EnrolledClasses(u)}

\* the submissions the three nested loops of get_pending_reviews append
PendingReviews(u) ==
    UNION {UNION {{s \in SubmissionsOf({a}) :
                      /\ ~IsOwnSubmission(u, s)
                      /\ ~ExistingReview(u, s)}
                  : a \in AssignmentsOf({c})}
           : c \in EnrolledClasses(u)}

GetPendingReviews(caller) ==
    LET st == GetPendingReviewsStatus(caller) IN
        /\ resp' = IF st = 200 /\ "get_pending_reviews" \in observed
                   THEN [op |-> "get_pending_reviews", status |-> st, caller |-> caller,
                         pending |-> PendingReviews(caller),
                         error |-> "", classes |-> {}]
                   ELSE Response(Site("get_pending_reviews", caller, STUDENT, <<>>, {}), st)
        /\ UNCHANGED <<users, classes, class_students, assignments, submissions,
                       peer_reviews, clock, inflight, observed, issued, BLOCKLIST>>


(* ---------------- overlapping requests (worker pool) ------------------ *)
\* A request that has passed its checks and has not yet issued its insert.
Request(op, caller, c, s_or_a, data) ==
    [op |-> op, caller |-> caller, class_id |-> c, target |-> s_or_a, data |-> data]

FreeSlot == CHOOSE k \in 1..MaxInflight : k \notin DOMAIN inflight

HasFreeSlot == \E k \in 1..MaxInflight : k \notin DOMAIN inflight

\* create_submission, lines 25-47: the reads
BeginCreateSubmission(caller, c, a, data) ==
    /\ HasFreeSlot
    /\ LET st == CreateSubmissionCheck(caller, c, a) IN
        IF st = 0
        THEN /\ inflight' = Put(inflight, FreeSlot,
                                Request("create_submission", caller, c, a, data))
             /\ resp' = resp
        ELSE /\ inflight' = inflight
             /\ resp' = Response(Site("create_submission", caller, STUDENT, <<>>, {}), st)
    /\ UNCHANGED <<users, classes, class_students, assignments, submissions,
                   peer_reviews, clock, observed, issued, BLOCKLIST>>

\* create_submission, lines 49-64: the insert and commit
CommitCreateSubmission(k) ==
    /\ k \in DOMAIN inflight
    /\ inflight[k].op = "create_submission"
    /\ CreateSubmissionInsert(inflight[k].caller, inflight[k].target, inflight[k].data)
    /\ resp' = Response("create_submission", 201)
    /\ inflight' = Remove(inflight, {k})
    /\ UNCHANGED <<users, classes, class_students, assignments, peer_reviews, observed, issued, BLOCKLIST>>

\* create_peer_review, lines 22-53: the reads
BeginCreatePeerReview(caller, c, a, s, data) ==
    /\ HasFreeSlot
    /\ LET st == CreatePeerReviewCheck(caller, c, a, s, data) IN
        IF st = 0
        THEN /\ inflight' = Put(inflight, FreeSlot,
                                Request("create_peer_review", caller, c, s, data))
             /\ resp' = resp
        ELSE /\ inflight' = inflight
             /\ resp' = Response(Site("create_peer_review", caller, STUDENT, data, {"content"}), st)
    /\ UNCHANGED <<users, classes, class_students, assignments, submissions,
                   peer_reviews, clock, observed, issued, BLOCKLIST>>

\* create_peer_review, lines 55-66: the insert and commit
CommitCreatePeerReview(k) ==
    /\ k \in DOMAIN inflight
    /\ inflight[k].op = "create_peer_review"
    /\ CreatePeerReviewInsert(inflight[k].caller, inflight[k].target, inflight[k].data)
    /\ resp' = Response("create_peer_review", 201)
    /\ inflight' = Remove(inflight, {k})
    /\ UNCHANGED <<users, classes, class_students, assignments, submissions, clock, observed, issued, BLOCKLIST>>

\* join_class, lines 128-144: the reads
BeginJoinClass(caller, data) ==
    /\ HasFreeSlot
    /\ LET st == JoinClassCheck(caller, data) IN
        IF st = 0
        THEN /\ inflight' = Put(inflight, FreeSlot,
                                Request("join_class", caller, data.classId, 0, data))
             /\ resp' = resp
        ELSE /\ inflight' = inflight
             /\ resp' = Response(Site("join_class", caller, STUDENT, data, {"classId", "passcode"}), st)
    /\ UNCHANGED <<users, classes, class_students, assignments, submissions,
                   peer_reviews, clock, observed, issued, BLOCKLIST>>

\* join_class, lines 146-152: the insert and commit, or the rollback and 500 of
\* handle_db_errors
CommitJoinClass(k) ==
    /\ k \in DOMAIN inflight
    /\ inflight[k].op = "join_class"
    /\ JoinClassInsert(inflight[k].class_id, inflight[k].caller)
    /\ resp' = JoinClassReply(inflight[k].class_id, inflight[k].caller)
    /\ inflight' = Remove(inflight, {k})
    /\ UNCHANGED <<users, classes, assignments, submissions, peer_reviews, clock, observed, issued, BLOCKLIST>>

(* ------------------------------ a request with its token ------------- *)
\* the view a request is routed to, run for the subject of its token
Handle(tok, req) ==
    CASE req.op = "logout" -> logout(tok)
      [] req.op = "get_session" -> get_session(tok)
      [] req.op = "create_class" -> CreateClass(tok.sub, req.data)
      [] req.op = "join_class" -> JoinClass(tok.sub, req.data)
      [] req.op = "leave_class" -> LeaveClass(tok.sub, req.class_id)

\* a request to a view behind jwt_required, teacher_required or student_required
Authenticated(tok, req) ==
    IF JwtStatus(tok) = 0 THEN Handle(tok, req) ELSE Rejected(tok)

(* ------------------------------ request inputs ------------------------ *)
GoodPassword == <<"A", "b", "c", "d", "e", "1", "2", "3">>

\* the address the n-th registration uses
Email(n) == <<" ", "U", ToString(n), "@", "x", ".", "i", "o">>

RoleInputs == {<<"T", "e", "a", "c", "h", "e", "r">>, STUDENT \o <<" ">>}

RegisterBodies ==
    {[name |-> <<"n">>, email |-> Email(NewId(users)), password |-> GoodPassword, role |-> r]
        : r \in RoleInputs}

ClassBodies == {[name |-> <<"n">>, subject |-> <<"s">>]}

JoinBodies == {[classId |-> c, passcode |-> pc \o <<" ">>] : c \in ClassIds, pc \in GeneratePasscode}

\* a passcode no class has
WrongPasscode == <<"a", "A", "A", "A", "A", "A">>

\* join_class bodies with the passcode as stored, padded, and wrong
JoinBodiesAny ==
    JoinBodies \cup {[classId |-> c, passcode |-> pc] :
                        c \in ClassIds, pc \in GeneratePasscode \cup {WrongPasscode}}

\* the ?role= query argument of list_classes
RoleArgs == {None, Some(TEACHER), Some(STUDENT)}

\* register bodies whose address may already be registered, as stored or in another
\* spelling
EmailInputs == {Email(3), Lower(Strip(Email(3))), SeedStudentEmail}

RegisterBodiesAny ==
    {[name |-> <<"n">>, email |-> e, password |-> GoodPassword, role |-> r]
        : e \in EmailInputs, r \in RoleInputs}

WrongPassword == <<"A", "b", "c", "d", "e", "1", "2", "4">>

UnknownEmail == <<"n", "o", "@", "x", ".", "i", "o">>

LoginBodies ==
    {[email |-> e, password |-> pw]
        : e \in {Email(3), SeedStudentEmail, UnknownEmail},
          pw \in {GoodPassword, SeedStudentPassword, WrongPassword}}

\* the requests sent with a token
Requests ==
    {[op |-> "logout"], [op |-> "get_session"]}
    \cup {[op |-> "create_class", data |-> d] : d \in ClassBodies}
    \cup {[op |-> "join_class", data |-> d] : d \in JoinBodies}
    \cup {[op |-> "leave_class", class_id |-> c] : c \in ClassIds}

\* grade_submission bodies: the grade a padded string, a bare string or a number;
\* the feedback absent, blank or padded; and a body without grade
GradeInputs == {JsonStr(<<" ", "A", " ">>), JsonStr(<<"B">>), JsonInt(9)}

FeedbackInputs == {<<" ", " ">>, <<" ", "o", "k">>}

GradeBodies ==
    {[grade |-> g] : g \in GradeInputs}
    \cup {[grade |-> g, feedback |-> f] : g \in GradeInputs, f \in FeedbackInputs}
    \cup {[feedback |-> f] : f \in FeedbackInputs}

\* update_submission bodies: a blank content, a file name alone, a content with a
\* file size
UpdateBodies ==
    {[content |-> <<" ">>],
     [fileName |-> <<"f">>],
     [content |-> <<"y", " ">>, fileSize |-> 7]}

PlainGradeBodies == {[grade |-> JsonStr(<<"B">>), feedback |-> <<" ", "o", "k">>]}

AssignmentBodies == {[title |-> <<"t", " ">>]}

\* update_assignment bodies: a title alone, a title with a description, a blank
\* description, a due date alone, a title that is a number, and a title followed by
\* a description that is a number
UpdateAssignmentBodies ==
    {[title |-> JsonStr(<<" ", "n", "e", "w">>)],
     [title |-> JsonStr(<<"n", "e", "w">>), description |-> JsonStr(<<"d", " ">>)],
     [description |-> JsonStr(<<" ">>)],
     [dueDate |-> JsonStr(<<"x">>)],
     [title |-> JsonInt(5)],
     [title |-> JsonStr(<<"n", "e", "w">>), description |-> JsonInt(5)]}

SubmissionBodies == {[content |-> <<" ", "x">>]}

ReviewBodies == {[content |-> <<"r", " ">>]}

(* ------------------------------ specifications ------------------------ *)
\* The bounds of a run: a request that would store a row is taken only while the
\* table's next key is within the bound; a request that fails is always taken.
Room(table, max, stores) == stores => NewId(table) <= max

Ticks(max, stores) == stores => clock <= max

DoRegister ==
    \E d \in RegisterBodies :
        Room(users, MaxUsers, RegisterStatus(d) = 201) /\ Register(d)

DoCreateClass ==
    \E u \in UserIds, d \in ClassBodies :
        Room(classes, MaxClasses, CreateClassStatus(u, d) = 201) /\ CreateClass(u, d)

DoDeleteClass == \E u \in UserIds, c \in ClassIds : DeleteClass(u, c)

DoJoinClass == \E u \in UserIds, d \in JoinBodies : JoinClass(u, d)

DoLeaveClass == \E u \in UserIds, c \in ClassIds : LeaveClass(u, c)

DoCreateAssignment ==
    \E u \in UserIds, c \in ClassIds, d \in AssignmentBodies :
        /\ Room(assignments, MaxAssignments, CreateAssignmentStatus(u, c, d) = 201)
        /\ CreateAssignment(u, c, d)

DoDeleteAssignment ==
    \E u \in UserIds, c \in ClassIds, a \in AssignmentIds : DeleteAssignment(u, c, a)

DoCreateSubmission(maxClock) ==
    \E u \in UserIds, c \in ClassIds, a \in AssignmentIds, d \in SubmissionBodies :
        /\ Room(submissions, MaxSubmissions, CreateSubmissionCheck(u, c, a) = 0)
        /\ Ticks(maxClock, CreateSubmissionCheck(u, c, a) = 0)
        /\ CreateSubmission(u, c, a, d)

DoUpdateSubmission(maxClock) ==
    \E u \in UserIds, c \in ClassIds, a \in AssignmentIds, s \in SubmissionIds,
       d \in SubmissionBodies :
        /\ Ticks(maxClock, UpdateSubmissionStatus(u, c, a, s) = 200)
        /\ UpdateSubmission(u, c, a, s, d)

DoDeleteSubmission ==
    \E u \in UserIds, c \in ClassIds, a \in AssignmentIds, s \in SubmissionIds :
        DeleteSubmission(u, c, a, s)

DoCreatePeerReview(maxReviews) ==
    \E u \in UserIds, c \in ClassIds, a \in AssignmentIds, s \in SubmissionIds,
       d \in ReviewBodies :
        /\ Room(peer_reviews, maxReviews, CreatePeerReviewCheck(u, c, a, s, d) = 0)
        /\ CreatePeerReview(u, c, a, s, d)

DoGetPendingReviews == \E u \in UserIds : GetPendingReviews(u)

\* One request at a time, every handler of the classroom life cycle.
Next ==
    \/ DoRegister
    \/ DoCreateClass
    \/ DoDeleteClass
    \/ DoJoinClass
    \/ DoLeaveClass
    \/ DoCreateAssignment
    \/ DoDeleteAssignment
    \/ DoCreateSubmission(LifeMaxClock)
    \/ DoUpdateSubmission(LifeMaxClock)
    \/ DoDeleteSubmission
    \/ DoCreatePeerReview(LifeMaxReviews)
    \/ DoGetPendingReviews

\* the sites whose responses a life-cycle run records
LifeObserved == {"delete_class", "get_pending_reviews"}

Init == Seeded /\ observed = LifeObserved

Spec == Init /\ [][Next]_vars

\* One request at a time, the handlers a student reaches inside the seeded class.
NextReview ==
    \/ DoRegister
    \/ DoJoinClass
    \/ DoLeaveClass
    \/ DoCreateSubmission(MaxClock)
    \/ DoUpdateSubmission(MaxClock)
    \/ DoDeleteSubmission
    \/ DoCreatePeerReview(MaxReviews)
    \/ DoGetPendingReviews

InitReview == Seeded /\ observed = Sites

SpecReview == InitReview /\ [][NextReview]_vars

\* The class handlers alone, every response recorded.
DoJoinClassAny == \E u \in UserIds, d \in JoinBodiesAny : JoinClass(u, d)

DoListClasses == \E u \in UserIds, args \in RoleArgs : list_classes(u, args)

DoGetClass == \E u \in UserIds, c \in ClassIds : get_class(u, c)

NextClasses ==
    \/ DoRegister
    \/ DoCreateClass
    \/ DoJoinClassAny
    \/ DoLeaveClass
    \/ DoListClasses
    \/ DoGetClass

InitClasses == Seeded /\ observed = Sites

SpecClasses == InitClasses /\ [][NextClasses]_vars

\* Registration, login and requests that carry a token, every response recorded.
DoRegisterAny ==
    \E d \in RegisterBodiesAny :
        Room(users, MaxUsers, RegisterStatus(d) = 201) /\ Register(d)

\* a request that would create n tokens is taken only while the run has room for them
Mints(max, n, creates) == creates => Len(issued) + n <= max

DoLogin == \E d \in LoginBodies : Mints(MaxIssued, 2, LoginStatus(d) = 200) /\ login(d)

DoAuthenticated ==
    \E tok \in Tokens, req \in Requests :
        /\ Room(classes, MaxClasses,
                /\ JwtStatus(tok) = 0
                /\ req.op = "create_class"
                /\ CreateClassStatus(tok.sub, req.data) = 201)
        /\ Authenticated(tok, req)

NextAuth ==
    \/ DoRegisterAny
    \/ DoLogin
    \/ DoAuthenticated

AuthSites == Sites \cup {"jwt_required", "login", "logout", "get_session"}

InitAuth == Seeded /\ observed = AuthSites

SpecAuth == InitAuth /\ [][NextAuth]_vars

\* Two classes with their assignments and the students who submit and review in
\* them, every response recorded.
NextChain ==
    \/ DoRegister
    \/ DoCreateClass
    \/ DoCreateAssignment
    \/ DoJoinClass
    \/ DoLeaveClass
    \/ DoCreateSubmission(LifeMaxClock)
    \/ DoCreatePeerReview(LifeMaxReviews)

InitChain == Seeded /\ observed = Sites

SpecChain == InitChain /\ [][NextChain]_vars

\* Sessions: logins, and requests that carry the tokens the logins and refreshes
\* created; every response recorded.
IssuedTokens == {IssuedToken(k) : k \in DOMAIN issued} \cup {NoToken}

SessionRequests == {[op |-> "logout"], [op |-> "get_session"]}

DoSessionRequest == \E tok \in IssuedTokens, req \in SessionRequests : Authenticated(tok, req)

DoRefresh ==
    \E tok \in IssuedTokens :
        Mints(MaxIssued, 1, JwtStatusOf(tok, "refresh") = 0) /\ refresh(tok)

NextSession ==
    \/ DoRegisterAny
    \/ DoLogin
    \/ DoSessionRequest
    \/ DoRefresh

SessionSites == {"jwt_required", "login", "logout", "get_session", "refresh", "register"}

InitSession == Seeded /\ observed = SessionSites

SpecSession == InitSession /\ [][NextSession]_vars

\* Grading: a submission of the seeded assignment, a second teacher and a second
\* class, every response recorded.
DoGradeSubmission ==
    \E u \in UserIds, c \in ClassIds, a \in AssignmentIds, s \in SubmissionIds,
       d \in GradeBodies :
        /\ Ticks(MaxClock, GradeSubmissionStatus(u, c, a, s, d) = 200)
        /\ grade_submission(u, c, a, s, d)

NextGrade ==
    \/ DoRegister
    \/ DoCreateClass
    \/ DoCreateSubmission(LifeMaxClock)
    \/ DoGradeSubmission

InitGrade == Seeded /\ observed = Sites \cup {"grade_submission"}

SpecGrade == InitGrade /\ [][NextGrade]_vars

\* A submission through its life: created, reviewed, graded, edited and withdrawn,
\* by students who join and leave; the responses of the edit and the withdrawal
\* recorded.
DoUpdateSubmissionAny ==
    \E u \in UserIds, c \in ClassIds, a \in AssignmentIds, s \in SubmissionIds,
       d \in UpdateBodies :
        /\ Ticks(MaxClock, UpdateSubmissionStatus(u, c, a, s) = 200)
        /\ UpdateSubmission(u, c, a, s, d)

\* the owner's grading, one body
DoGradeSubmissionPlain ==
    \E u \in UserIds, c \in ClassIds, a \in AssignmentIds, s \in SubmissionIds,
       d \in PlainGradeBodies :
        /\ Ticks(MaxClock, GradeSubmissionStatus(u, c, a, s, d) = 200)
        /\ grade_submission(u, c, a, s, d)

NextResubmit ==
    \/ DoRegister
    \/ DoJoinClass
    \/ DoLeaveClass
    \/ DoCreateSubmission(LifeMaxClock)
    \/ DoCreatePeerReview(LifeMaxReviews)
    \/ DoGradeSubmissionPlain
    \/ DoUpdateSubmissionAny
    \/ DoDeleteSubmission

ResubmitObserved == {"update_submission", "delete_submission"}

InitResubmit == Seeded /\ observed = ResubmitObserved

SpecResubmit == InitResubmit /\ [][NextResubmit]_vars

\* The assignment handlers, with a second teacher and a second class; the responses
\* of the three handlers recorded.
DoUpdateAssignment ==
    \E u \in UserIds, c \in ClassIds, a \in AssignmentIds, d \in UpdateAssignmentBodies :
        UpdateAssignment(u, c, a, d)

NextAssign ==
    \/ DoRegister
    \/ DoCreateClass
    \/ DoCreateAssignment
    \/ DoUpdateAssignment
    \/ DoDeleteAssignment

AssignObserved == {"create_assignment", "update_assignment", "delete_assignment"}

InitAssign == Seeded /\ observed = AssignObserved

SpecAssign == InitAssign /\ [][NextAssign]_vars

\* Requests that overlap: create_submission, create_peer_review and join_class each
\* take their reads and their insert as two steps, and any other request may be
\* served between the two.
DoBeginCreateSubmission ==
    \E u \in UserIds, c \in ClassIds, a \in AssignmentIds, d \in SubmissionBodies :
        BeginCreateSubmission(u, c, a, d)

DoCommitCreateSubmission ==
    \E k \in 1..MaxInflight :
        /\ NewId(submissions) <= MaxSubmissions
        /\ clock <= MaxClock
        /\ CommitCreateSubmission(k)

DoBeginCreatePeerReview ==
    \E u \in UserIds, c \in ClassIds, a \in AssignmentIds, s \in SubmissionIds,
       d \in ReviewBodies : BeginCreatePeerReview(u, c, a, s, d)

DoCommitCreatePeerReview ==
    \E k \in 1..MaxInflight :
        NewId(peer_reviews) <= MaxReviews /\ CommitCreatePeerReview(k)

DoBeginJoinClass == \E u \in UserIds, d \in JoinBodies : BeginJoinClass(u, d)

DoCommitJoinClass == \E k \in 1..MaxInflight : CommitJoinClass(k)

NextConc ==
    \/ DoRegister
    \/ DoLeaveClass
    \/ DoBeginJoinClass
    \/ DoCommitJoinClass
    \/ DoBeginCreateSubmission
    \/ DoCommitCreateSubmission
    \/ DoBeginCreatePeerReview
    \/ DoCommitCreatePeerReview

\* the sites whose responses an overlapping run records
ConcObserved == {"join_class", "create_submission", "create_peer_review"}

InitConc == Seeded /\ observed = ConcObserved

SpecConc == InitConc /\ [][NextConc]_vars

\* Requests that fail: joins that overlap, updates of an assignment whose body
\* raises, requests with revoked or missing tokens; every response recorded.
DoTokenRequest == \E tok \in Tokens, req \in SessionRequests : Authenticated(tok, req)

NextFail ==
    \/ DoBeginJoinClass
    \/ DoCommitJoinClass
    \/ DoLeaveClass
    \/ DoUpdateAssignment
    \/ DoTokenRequest

FailSites == Sites \cup {"jwt_required", "logout", "get_session", "update_assignment"}

InitFail == Seeded /\ observed = FailSites

SpecFail == InitFail /\ [][NextFail]_vars

(* ====================================================================== *)
(* Properties                                                              *)
(* ====================================================================== *)
\* u is a registered student currently enrolled in the existing class c
EnrolledStudent(u, c) ==
    /\ u \in DOMAIN users
    /\ users[u].role = STUDENT
    /\ c \in DOMAIN classes
    /\ class_students[<<c, u>>] > 0

\* the submissions of student u for assignment a
SubmissionsBy(u, a) ==
    {s \in DOMAIN submissions :
        submissions[s].student_id = u /\ submissions[s].assignment_id = a}

\* the reviews of reviewer u on submission s
ReviewsBy(u, s) ==
    {r \in DOMAIN peer_reviews :
        peer_reviews[r].reviewer_id = u /\ peer_reviews[r].submission_id = s}

\* submission s exists and the path /classes/c/assignments/a/submissions/s is its own
RealChain(c, a, s) ==
    /\ s \in DOMAIN submissions
    /\ submissions[s].assignment_id = a
    /\ a \in DOMAIN assignments
    /\ assignments[a].class_id = c

(* ------------------------------- C1 ----------------------------------- *)
AtMostOneSubmissionPerPair ==
    \A u \in UserIds, a \in AssignmentIds : Cardinality(SubmissionsBy(u, a)) <= 1

C1_CreateStep ==
    \A u \in UserIds, c \in ClassIds, a \in AssignmentIds, d \in SubmissionBodies :
        (/\ EnrolledStudent(u, c)
         /\ a \in DOMAIN assignments
         /\ assignments[a].class_id = c
         /\ CreateSubmission(u, c, a, d))
        => IF SubmissionsBy(u, a) = {}
           THEN /\ resp'.status = 201
                /\ \E s \in DOMAIN submissions' \ DOMAIN submissions :
                      /\ submissions'[s].student_id = u
                      /\ submissions'[s].assignment_id = a
                      /\ DOMAIN submissions' = DOMAIN submissions \cup {s}
                /\ \A s \in DOMAIN submissions : submissions'[s] = submissions[s]
           ELSE /\ resp'.status = 409
                /\ submissions' = submissions

C1_UpdateStep ==
    \A u \in UserIds, c \in ClassIds, a \in AssignmentIds, s \in SubmissionIds,
       d \in SubmissionBodies :
        (/\ RealChain(c, a, s)
         /\ submissions[s].student_id = u
         /\ UpdateSubmission(u, c, a, s, d))
        => /\ resp'.status = 200
           /\ submissions'[s].submitted_at # submissions[s].submitted_at

\* C1: with one request at a time there is never more than one submission per
\* (student_id, assignment_id); a create_submission by an enrolled student for an
\* assignment of the class answers 201 and stores the submission when the student
\* has none for it, and answers 409 and leaves the table as it is when the student
\* has one; an update_submission by the author on the submission's own path answers
\* 200 and changes submitted_at.
C1_SubmitOnceThenUpdate ==
    /\ []AtMostOneSubmissionPerPair
    /\ [][C1_CreateStep /\ C1_UpdateStep]_vars

\* a second create was refused after the one stored submission had been resubmitted
C1_Witness ==
    /\ resp.op = "create_submission"
    /\ resp.status = 409
    /\ DOMAIN submissions = {1}
    /\ submissions[1].submitted_at = 2
    /\ clock = 3

(* ------------------------------- C5 ----------------------------------- *)
\* C5: no stored peer review is written by the author of the submission it reviews.
C5_NoSelfReview ==
    \A r \in DOMAIN peer_reviews :
        /\ peer_reviews[r].submission_id \in DOMAIN submissions
        /\ peer_reviews[r].reviewer_id # submissions[peer_reviews[r].submission_id].student_id

\* a review is stored whose reviewer has a submission of their own for the same assignment
C5_Witness ==
    \E r \in DOMAIN peer_reviews :
        SubmissionsBy(peer_reviews[r].reviewer_id,
                      submissions[peer_reviews[r].submission_id].assignment_id) # {}

(* ------------------------------- C6 ----------------------------------- *)
\* C6 as claimed: a create_peer_review by the author of the submission, on the
\* submission's own path and with a content field, answers 400 whether or not the
\* author is enrolled in the class.
C6_SelfReviewAlways400 ==
    [][\A u \in UserIds, c \in ClassIds, a \in AssignmentIds, s \in SubmissionIds,
          d \in ReviewBodies :
            (/\ RealChain(c, a, s)
             /\ submissions[s].student_id = u
             /\ CreatePeerReview(u, c, a, s, d))
            => resp'.status = 400]_vars

\* C6 as amended: such a request answers 400 when the author is currently enrolled
\* in the class and 403 when the author is not, and stores no review in either case.
C6_SelfReviewRejected ==
    [][\A u \in UserIds, c \in ClassIds, a \in AssignmentIds, s \in SubmissionIds,
          d \in ReviewBodies :
            (/\ RealChain(c, a, s)
             /\ submissions[s].student_id = u
             /\ CreatePeerReview(u, c, a, s, d))
            => /\ resp'.status = IF class_students[<<c, u>>] > 0 THEN 400 ELSE 403
               /\ peer_reviews' = peer_reviews]_vars

\* the only student wrote a submission, left the class and was answered 403 by the
\* handler when reviewing in it
C6_Witness ==
    /\ resp.op = "create_peer_review"
    /\ resp.status = 403
    /\ DOMAIN users = {1, 2}
    /\ class_students[<<1, 2>>] = 0
    /\ \E s \in DOMAIN submissions : submissions[s].student_id = 2

(* ------------------------------- C7 ----------------------------------- *)
AtMostOneReviewPerPair ==
    \A u \in UserIds, s \in SubmissionIds : Cardinality(ReviewsBy(u, s)) <= 1

C7_ReviewStep ==
    \A u \in UserIds, c \in ClassIds, a \in AssignmentIds, s \in SubmissionIds,
       d \in ReviewBodies :
        (/\ EnrolledStudent(u, c)
         /\ RealChain(c, a, s)
         /\ submissions[s].student_id # u
         /\ CreatePeerReview(u, c, a, s, d))
        => IF ReviewsBy(u, s) = {}
           THEN /\ resp'.status = 201
                /\ \E r \in DOMAIN peer_reviews' \ DOMAIN peer_reviews :
                      /\ peer_reviews'[r].reviewer_id = u
                      /\ peer_reviews'[r].submission_id = s
                      /\ DOMAIN peer_reviews' = DOMAIN peer_reviews \cup {r}
           ELSE /\ resp'.status = 409
                /\ peer_reviews' = peer_reviews

\* C7: with one request at a time there is never more than one peer review per
\* (reviewer_id, submission_id); a create_peer_review by an enrolled student who is
\* not the author answers 201 and stores the review when the student has not yet
\* reviewed the submission, and answers 409 and stores nothing when the student has.
C7_ReviewOnce ==
    /\ []AtMostOneReviewPerPair
    /\ [][C7_ReviewStep]_vars

\* a second review by the same reviewer was refused
C7_Witness ==
    /\ resp.op = "create_peer_review"
    /\ resp.status = 409
    /\ peer_reviews # <<>>

(* ------------------------------- C2 ----------------------------------- *)
\* C2: once every overlapping request has finished there is at most one submission
\* per (student_id, assignment_id).
C2_OneSubmissionAfterOverlap ==
    (DOMAIN inflight = {}) => \A u \in UserIds, a \in AssignmentIds :
                                  Cardinality(SubmissionsBy(u, a)) <= 1

(* ------------------------------- C3 ----------------------------------- *)
\* C3: once every overlapping request has finished there is at most one peer review
\* per (reviewer_id, submission_id).
C3_OneReviewAfterOverlap ==
    (DOMAIN inflight = {}) => \A u \in UserIds, s \in SubmissionIds :
                                  Cardinality(ReviewsBy(u, s)) <= 1

(* ------------------------------- C4 ----------------------------------- *)
EnrollmentStoredOnce == \A p \in Pairs : class_students[p] <= 1

C4_CommitStep ==
    \A k \in 1..MaxInflight :
        (/\ k \in DOMAIN inflight
         /\ inflight[k].op = "join_class"
         /\ CommitJoinClass(k))
        => /\ class_students'[<<inflight[k].class_id, inflight[k].caller>>] = 1
           /\ resp'.status = IF class_students[<<inflight[k].class_id, inflight[k].caller>>] = 0
                             THEN 200 ELSE 500

\* C4: under overlapping join_class requests no (class_id, user_id) row is ever
\* stored twice, and when a join that passed the already-enrolled test issues its
\* insert the student is enrolled exactly once afterwards: the insert is stored and
\* answered 200 when the row is absent, refused and answered 500 when it is present.
C4_JoinStoresOnce ==
    /\ []EnrollmentStoredOnce
    /\ [][C4_CommitStep]_vars

\* two joins of the same student passed the test; the second insert was refused
C4_Witness ==
    /\ resp.op = "join_class"
    /\ resp.status = 500
    /\ DOMAIN inflight = {}
    /\ \E p \in Pairs : class_students[p] = 1

(* ------------------------------- C8 ----------------------------------- *)
\* the submissions of assignments of classes u is enrolled in, not written by u and
\* not reviewed by u
C8_Expected(u) ==
    {s \in DOMAIN submissions :
        /\ submissions[s].assignment_id \in DOMAIN assignments
        /\ assignments[submissions[s].assignment_id].class_id \in DOMAIN classes
        /\ class_students[<<assignments[submissions[s].assignment_id].class_id, u>>] > 0
        /\ submissions[s].student_id # u
        /\ ReviewsBy(u, s) = {}}

\* C8: for every registered student, get_pending_reviews returns exactly the
\* submissions that belong to an assignment of a class the student is enrolled in,
\* are not the student's own and are not reviewed by the student; a recorded
\* response holds that set for its caller.
C8_PendingExact ==
    /\ \A u \in DOMAIN users :
          users[u].role = STUDENT => PendingReviews(u) = C8_Expected(u)
    /\ resp.op = "get_pending_reviews" =>
          /\ resp.status = 200
          /\ resp.pending = C8_Expected(resp.caller)

\* a response lists another student's submission and leaves out the caller's own
C8_Witness ==
    /\ resp.op = "get_pending_reviews"
    /\ resp.pending # {}
    /\ \E s \in DOMAIN submissions : submissions[s].student_id = resp.caller

(* ------------------------------- C9 ----------------------------------- *)
\* the rows of `table` that pass `keep`
Kept(table, keep(_)) == [k \in {x \in DOMAIN table : keep(x)} |-> table[k]]

C9_DeleteStep ==
    \A u \in UserIds, c \in ClassIds :
        (/\ c \in DOMAIN classes
         /\ DeleteClass(u, c))
        => IF u \in DOMAIN users /\ users[u].role = TEACHER /\ classes[c].owner_id = u
           THEN LET notC(x) == x # c
                    asgOther(a) == assignments[a].class_id # c
                    subOther(s) == assignments[submissions[s].assignment_id].class_id # c
                    revOther(r) ==
                        assignments[submissions[peer_reviews[r].submission_id].assignment_id].class_id # c
                IN  /\ resp'.status = 200
                    /\ classes' = Kept(classes, notC)
                    /\ assignments' = Kept(assignments, asgOther)
                    /\ submissions' = Kept(submissions, subOther)
                    /\ peer_reviews' = Kept(peer_reviews, revOther)
                    /\ \A p \in Pairs : p[1] # c => class_students'[p] = class_students[p]
                    /\ users' = users
           ELSE /\ UNCHANGED db
                /\ (u \in DOMAIN users /\ users[u].role = TEACHER) => resp'.status = 403

\* C9: delete_class on an existing class answers 200 only for the teacher who owns
\* it, and then the class and exactly the assignments, submissions and peer reviews
\* beneath it are gone while every row of every other class is as before; for any
\* other caller the store is unchanged, and another teacher is answered 403.
C9_DeleteClassOwnerOnly == [][C9_DeleteStep]_vars

\* the owner deleted class 1 after work had been submitted; class 2 keeps its assignment
C9_Witness ==
    /\ resp.op = "delete_class"
    /\ resp.status = 200
    /\ DOMAIN classes = {2}
    /\ \E a \in DOMAIN assignments : assignments[a].class_id = 2
    /\ clock > 1

(* ------------------------------- C10 ---------------------------------- *)
\* C10: every assignment refers to an existing class, every submission to an
\* existing assignment and every peer review to an existing submission.
C10_NoOrphans ==
    /\ \A a \in DOMAIN assignments : assignments[a].class_id \in DOMAIN classes
    /\ \A s \in DOMAIN submissions : submissions[s].assignment_id \in DOMAIN assignments
    /\ \A r \in DOMAIN peer_reviews : peer_reviews[r].submission_id \in DOMAIN submissions

\* the seeded class has been deleted and a reviewed submission exists in another class
C10_Witness ==
    /\ 1 \notin DOMAIN classes
    /\ peer_reviews # <<>>

(* ------------------------------- C11 ---------------------------------- *)
\* u is a registered student
IsStudent(u) == u \in DOMAIN users /\ users[u].role = STUDENT

\* u is a registered teacher
IsTeacher(u) == u \in DOMAIN users /\ users[u].role = TEACHER

\* no enrollment changes, except that of pairs in `but`
SameEnrollments(but) == \A p \in Pairs \ but : class_students'[p] = class_students[p]

\* C11 as claimed: a join_class by a student on an existing class with a passcode
\* different from the class's passcode answers 401 and leaves the roster unchanged.
C11_DifferentPasscode401 ==
    [][\A u \in UserIds, d \in JoinBodiesAny :
          (/\ IsStudent(u)
           /\ d.classId \in DOMAIN classes
           /\ d.passcode # classes[d.classId].passcode
           /\ JoinClass(u, d))
          => /\ resp'.status = 401
             /\ class_students' = class_students]_vars

\* C11 as amended: the passcode is compared after surrounding whitespace is removed.
\* A join_class by a student on an existing class answers 401 and leaves the roster
\* unchanged when the trimmed passcode differs from the class's; otherwise it adds
\* exactly the student to the roster and answers 200 when the student is not
\* enrolled, and answers 409 and leaves the roster unchanged when the student is.
C11_JoinByPasscode ==
    [][\A u \in UserIds, d \in JoinBodiesAny :
          (/\ IsStudent(u)
           /\ d.classId \in DOMAIN classes
           /\ JoinClass(u, d))
          => IF Strip(d.passcode) # classes[d.classId].passcode
             THEN resp'.status = 401 /\ class_students' = class_students
             ELSE IF class_students[<<d.classId, u>>] = 0
             THEN /\ resp'.status = 200
                  /\ class_students'[<<d.classId, u>>] = 1
                  /\ SameEnrollments({<<d.classId, u>>})
             ELSE resp'.status = 409 /\ class_students' = class_students]_vars

\* the registered third user, a student, joined class 1 and was refused a second join
C11_Witness ==
    /\ resp.op = "join_class"
    /\ resp.status = 409
    /\ IsStudent(3)
    /\ class_students[<<1, 3>>] = 1
    /\ class_students[<<1, 2>>] = 0

(* ------------------------------- C12 ---------------------------------- *)
\* C12: a leave_class by a student answers 404 when the class is absent and 400 when
\* the student is not enrolled, changing nothing; otherwise it answers 200, removes
\* exactly the caller's enrollment in that class, and leaves users, classes,
\* assignments, submissions, peer reviews and every other enrollment as they were.
C12_LeaveRemovesOnlyEnrollment ==
    [][\A u \in UserIds, c \in ClassIds :
          (/\ IsStudent(u)
           /\ LeaveClass(u, c))
          => IF c \notin DOMAIN classes
             THEN resp'.status = 404 /\ UNCHANGED db
             ELSE IF class_students[<<c, u>>] = 0
             THEN resp'.status = 400 /\ UNCHANGED db
             ELSE /\ resp'.status = 200
                  /\ class_students'[<<c, u>>] = 0
                  /\ SameEnrollments({<<c, u>>})
                  /\ UNCHANGED <<users, classes, assignments, submissions,
                                 peer_reviews>>]_vars

\* student 2 left class 1 while student 3 stays enrolled; the submission of student 2
\* and a review on it are still stored
C12_Witness ==
    /\ resp.op = "leave_class"
    /\ resp.status = 200
    /\ class_students[<<1, 2>>] = 0
    /\ class_students[<<1, 3>>] = 1
    /\ \E s \in DOMAIN submissions : submissions[s].student_id = 2
    /\ peer_reviews # <<>>

(* ------------------------------- C13 ---------------------------------- *)
\* C13: a create_class with name and subject answers 403 and stores no class when
\* the caller is not a registered teacher; when the caller is one it answers 201,
\* stores one new class owned by the caller, leaves the other classes as they were,
\* and returns the new class with its passcode, which has exactly 6 characters, each
\* an uppercase letter or a digit.
C13_CreateClassTeacherOnly ==
    [][\A u \in UserIds, d \in ClassBodies :
          CreateClass(u, d)
          => IF IsTeacher(u)
             THEN /\ resp'.status = 201
                  /\ \E c \in DOMAIN classes' \ DOMAIN classes :
                        /\ DOMAIN classes' = DOMAIN classes \cup {c}
                        /\ classes'[c].owner_id = u
                        /\ Len(classes'[c].passcode) = 6
                        /\ \A i \in 1..Len(classes'[c].passcode) :
                              classes'[c].passcode[i] \in Upper \cup Digits
                        /\ \E v \in resp'.classes :
                              /\ resp'.classes = {v}
                              /\ v.id = c
                              /\ v.passcode = {classes'[c].passcode}
                  /\ \A c \in DOMAIN classes : classes'[c] = classes[c]
             ELSE resp'.status = 403 /\ classes' = classes]_vars

\* the third user registered as a teacher and created class 2
C13_Witness ==
    /\ resp.op = "create_class"
    /\ resp.status = 201
    /\ 2 \in DOMAIN classes
    /\ classes[2].owner_id = 3

(* ------------------------------- C14 ---------------------------------- *)
\* view v carries the passcode or the students of its class
Discloses(v) == v.passcode # {} \/ v.students # {}

\* every view of the response that carries a passcode or students is of a class u owns
OnlyToOwner(u) == \A v \in resp'.classes : Discloses(v) => classes'[v.id].owner_id = u

\* C14: in every response of create_class, list_classes (with either role filter or
\* none), get_class and join_class, a class view carries the passcode or the students
\* only when the caller owns that class.
C14_DisclosedOnlyToOwner ==
    [][/\ \A u \in UserIds, d \in ClassBodies : CreateClass(u, d) => OnlyToOwner(u)
       /\ \A u \in UserIds, args \in RoleArgs : list_classes(u, args) => OnlyToOwner(u)
       /\ \A u \in UserIds, c \in ClassIds : get_class(u, c) => OnlyToOwner(u)
       /\ \A u \in UserIds, d \in JoinBodiesAny : JoinClass(u, d) => OnlyToOwner(u)]_vars

\* get_class answered a view without passcode and students while a student is
\* enrolled in a class
C14_Witness ==
    /\ resp.op = "get_class"
    /\ resp.status = 200
    /\ \E v \in resp.classes : ~Discloses(v) /\ class_students[<<v.id, 2>>] = 1

(* ------------------------------- C15 ---------------------------------- *)
\* an address as compared: trimmed and lower-cased
Normal(email) == Lower(Strip(email))

UniqueEmails ==
    \A u, v \in DOMAIN users :
        u # v => Normal(users[u].email) # Normal(users[v].email)

C15_RegisterStep ==
    \A d \in RegisterBodiesAny :
        (resp'.op = "register" /\ Register(d))
        => IF \A u \in DOMAIN users : Normal(users[u].email) # Normal(d.email)
           THEN /\ resp'.status = 201
                /\ \E n \in DOMAIN users' \ DOMAIN users :
                      /\ DOMAIN users' = DOMAIN users \cup {n}
                      /\ users'[n].email = Normal(d.email)
                /\ \A u \in DOMAIN users : users'[u] = users[u]
           ELSE /\ resp'.status = 409
                /\ users' = users

\* C15: no two users ever share an address, compared trimmed and lower-cased; a
\* register with a valid body, answered by the handler itself, answers 201 and
\* stores the user when no user has the address, and answers 409 and stores
\* nothing when one has it.
C15_EmailUnique ==
    /\ []UniqueEmails
    /\ [][C15_RegisterStep]_vars

\* the third user registered, and a later register was refused as a duplicate
C15_Witness ==
    /\ resp.op = "register"
    /\ resp.status = 409
    /\ 3 \in DOMAIN users
    /\ users[3].email = Normal(Email(3))

(* ------------------------------- C16 ---------------------------------- *)
\* the password user u was registered with: those of the seed, or the one every
\* register body carries
RegisteredPassword(u) ==
    CASE u = 1 -> SeedTeacherPassword
      [] u = 2 -> SeedStudentPassword
      [] OTHER -> GoodPassword

\* the one answer to a failed login
LoginFailure ==
    [op |-> "login", status |-> 401, caller |-> 0, pending |-> {},
     error |-> "Invalid email or password", classes |-> {}]

C16_LoginStep ==
    \A d \in LoginBodies :
        (resp'.op = "login" /\ login(d))
        => LET who == {u \in DOMAIN users :
                          /\ users[u].email = Normal(d.email)
                          /\ d.password = RegisteredPassword(u)}
           IN  /\ IF who # {}
                  THEN resp'.status = 200 /\ resp'.caller \in who
                  ELSE resp' = LoginFailure
               /\ UNCHANGED db

\* C16: a login answers 200, for that user, exactly when a user is registered under
\* the address and the password is the one the user was registered with; every other
\* login is answered with one and the same response (401, "Invalid email or
\* password"), whether the address is unknown or the password is wrong; the stored
\* credential is never the password itself.
C16_LoginExact ==
    /\ [](\A u \in DOMAIN users : users[u].password_hash # RegisteredPassword(u))
    /\ [][C16_LoginStep]_vars

\* the user registered in this run logged in
C16_Witness ==
    /\ resp.op = "login"
    /\ resp.status = 200
    /\ resp.caller = 3

(* ------------------------------- C17 ---------------------------------- *)
C17_Step ==
    /\ BLOCKLIST \subseteq BLOCKLIST'
    /\ \A tok \in Tokens \ {NoToken}, req \in Requests :
          /\ (/\ tok.jti \notin BLOCKLIST
              /\ req.op = "logout"
              /\ Authenticated(tok, req))
             => resp'.status = 200 /\ tok.jti \in BLOCKLIST'
          /\ (/\ tok.jti \in BLOCKLIST
              /\ Authenticated(tok, req))
             => /\ resp'.status = 401
                /\ UNCHANGED <<db, clock, BLOCKLIST>>

\* C17: a logout with an accepted token answers 200 and puts the token's jti in the
\* blocklist; no step ever removes a jti from the blocklist; and every request that
\* presents a token whose jti is in the blocklist, to whichever view, is answered 401
\* and changes neither the store nor the blocklist.
C17_RevokedStaysRevoked == [][C17_Step]_vars

\* the first token of user 2 is revoked and was refused; the second is not revoked
C17_Witness ==
    /\ resp.op = "jwt_required"
    /\ resp.error = "Token has been revoked"
    /\ BLOCKLIST = {2}

(* ------------------------------- C18 ---------------------------------- *)
\* the requests to role-gated views
GatedRequests == {req \in Requests : req.op \in {"create_class", "join_class", "leave_class"}}

\* the role the view of req demands
RequiredRole(req) == IF req.op = "create_class" THEN TEACHER ELSE STUDENT

\* C18: a request to a role-gated view is answered 401 when it carries no token or a
\* revoked one, 404 when the subject of its token is not a user, and 403 when the
\* subject is a user of another role than the one demanded; in all three cases the
\* store is unchanged.
C18_GateAnswers ==
    [][\A tok \in Tokens, req \in GatedRequests :
          Authenticated(tok, req)
          => IF tok = NoToken \/ tok.jti \in BLOCKLIST
             THEN resp'.status = 401 /\ UNCHANGED db
             ELSE IF tok.sub \notin DOMAIN users
             THEN resp'.status = 404 /\ UNCHANGED db
             ELSE users[tok.sub].role # RequiredRole(req)
                  => resp'.status = 403 /\ UNCHANGED db]_vars

(* ------------------------------- C19 ---------------------------------- *)
\* the grading columns of submission s in table t
Grading(t, s) == <<t[s].grade, t[s].feedback, t[s].graded_at>>

\* u is the teacher who owns the class that owns the assignment that owns s, and the
\* path names that class and assignment
OwnsChain(u, c, a, s) ==
    /\ IsTeacher(u)
    /\ RealChain(c, a, s)
    /\ c \in DOMAIN classes
    /\ classes[c].owner_id = u

\* C19: a grade_submission changes the submissions table only when its caller is the
\* teacher owning the class that owns the assignment that owns the submission and
\* its path names that class and assignment: for every other caller and every other
\* path nothing is changed; and when it does change the table, the grade, feedback
\* and graded_at of every other submission stay as they were.
C19_GradeOnlyByOwner ==
    [][submissions' # submissions
       => \A u \in UserIds, c \in ClassIds, a \in AssignmentIds, s \in SubmissionIds,
             d \in GradeBodies :
               grade_submission(u, c, a, s, d)
               => /\ OwnsChain(u, c, a, s)
                  /\ DOMAIN submissions' = DOMAIN submissions
                  /\ \A x \in DOMAIN submissions \ {s} :
                        Grading(submissions', x) = Grading(submissions, x)]_vars

\* the owner of class 2 was refused when grading the ungraded submission of class 1
\* through a path that names class 2
C19_Witness ==
    /\ resp.op = "grade_submission"
    /\ resp.status = 404
    /\ 2 \in DOMAIN classes
    /\ 1 \in DOMAIN submissions
    /\ submissions[1].grade = {}

(* ------------------------------- C20 ---------------------------------- *)
\* a successful grade_submission on s with body d
Graded(u, c, a, s, d) ==
    /\ resp'.op = "grade_submission"
    /\ resp'.status = 200
    /\ grade_submission(u, c, a, s, d)

\* the grade as the body gives it: a string as it stands, a number in decimal
AsGiven(g) == IF g.t = "int" THEN IntToStr(g.n) ELSE g.v

\* C20 as claimed: after a successful grade_submission with grade g and feedback f
\* the submission's grade is g, its feedback is f, null when omitted or blank, and
\* graded_at is not null.
C20_StoresAsGiven ==
    [][\A u \in UserIds, c \in ClassIds, a \in AssignmentIds, s \in SubmissionIds,
          d \in GradeBodies :
            Graded(u, c, a, s, d)
            => /\ submissions'[s].grade = {AsGiven(d.grade)}
               /\ submissions'[s].feedback =
                     IF "feedback" \notin DOMAIN d \/ \A i \in DOMAIN d.feedback : d.feedback[i] = " "
                     THEN {} ELSE {d.feedback}
               /\ submissions'[s].graded_at # {}]_vars

\* C20 as amended: after a successful grade_submission with grade g and feedback f,
\* whatever the submission held before, its grade is str(g) without surrounding
\* whitespace, its feedback is f without surrounding whitespace, null when f is
\* omitted or blank, graded_at is not null and nothing else of the submission
\* changes; grade and feedback depend on the request alone, so the same call applied
\* twice leaves them as applied once.
C20_GradeOverwrites ==
    [][\A u \in UserIds, c \in ClassIds, a \in AssignmentIds, s \in SubmissionIds,
          d \in GradeBodies :
            Graded(u, c, a, s, d)
            => /\ submissions'[s].grade = {Strip(AsGiven(d.grade))}
               /\ submissions'[s].feedback =
                     IF "feedback" \notin DOMAIN d \/ Strip(d.feedback) = <<>>
                     THEN {} ELSE {Strip(d.feedback)}
               /\ submissions'[s].graded_at # {}
               /\ submissions' = [submissions EXCEPT
                                     ![s].grade = submissions'[s].grade,
                                     ![s].feedback = submissions'[s].feedback,
                                     ![s].graded_at = submissions'[s].graded_at]]_vars

\* submission 1 was graded a second time, with a number and without feedback
C20_Witness ==
    /\ resp.op = "grade_submission"
    /\ resp.status = 200
    /\ 1 \in DOMAIN submissions
    /\ submissions[1].grade = {<<"9">>}
    /\ submissions[1].feedback = {}
    /\ submissions[1].graded_at = {3}

(* ------------------------------- C21 ---------------------------------- *)
\* assignment a exists and belongs to class c
AssignmentOf(a, c) == a \in DOMAIN assignments /\ assignments[a].class_id = c

\* C21: a create_submission by student u naming class c and assignment a answers
\* 403 and stores nothing when c exists and u is not enrolled in it, answers 404 and
\* stores nothing when u is enrolled in c and a is absent or not an assignment of c,
\* and whenever it stores a submission, u is a student enrolled in c at that moment,
\* a is an assignment of c and the one new row has u as author and a as assignment.
C21_SubmitOnlyInOwnClass ==
    [][resp'.op \in {"create_submission", "student_required"}
       => \A u \in UserIds, c \in ClassIds, a \in AssignmentIds, d \in SubmissionBodies :
               CreateSubmission(u, c, a, d)
               => /\ (IsStudent(u) /\ c \in DOMAIN classes /\ ~EnrolledStudent(u, c))
                        => (resp'.status = 403 /\ UNCHANGED db)
                  /\ (EnrolledStudent(u, c) /\ ~AssignmentOf(a, c))
                        => (resp'.status = 404 /\ UNCHANGED db)
                  /\ submissions' # submissions
                        => /\ EnrolledStudent(u, c)
                           /\ AssignmentOf(a, c)
                           /\ resp'.status = 201
                           /\ \E s \in DOMAIN submissions' \ DOMAIN submissions :
                                 /\ DOMAIN submissions' = DOMAIN submissions \cup {s}
                                 /\ submissions'[s].student_id = u
                                 /\ submissions'[s].assignment_id = a
                                 /\ \A x \in DOMAIN submissions :
                                        submissions'[x] = submissions[x]]_vars

\* an enrolled student was answered 404 while both classes and both assignments
\* exist: the assignment named is one of the other class
C21_Witness ==
    /\ resp.op = "create_submission"
    /\ resp.status = 404
    /\ DOMAIN classes = ClassIds
    /\ DOMAIN assignments = AssignmentIds
    /\ \E a1, a2 \in AssignmentIds : assignments[a1].class_id # assignments[a2].class_id

(* ------------------------------- C22 ---------------------------------- *)
\* C22: a create_peer_review by student u naming class c, assignment a and
\* submission s, with a content field, answers 403 and stores nothing when c exists
\* and u is not enrolled in it, answers 404 and stores nothing when u is enrolled in
\* c and s is not a submission of assignment a of class c, and whenever it stores a
\* review, u is a student enrolled in the class that owns the assignment that owns
\* s and the path names that class and assignment.
C22_ReviewOnlyInOwnClass ==
    [][resp'.op \in {"create_peer_review", "student_required"}
       => \A u \in UserIds, c \in ClassIds, a \in AssignmentIds, s \in SubmissionIds,
             d \in ReviewBodies :
               CreatePeerReview(u, c, a, s, d)
               => /\ (IsStudent(u) /\ c \in DOMAIN classes /\ ~EnrolledStudent(u, c))
                        => (resp'.status = 403 /\ UNCHANGED db)
                  /\ (EnrolledStudent(u, c) /\ ~RealChain(c, a, s))
                        => (resp'.status = 404 /\ UNCHANGED db)
                  /\ peer_reviews' # peer_reviews
                        => /\ RealChain(c, a, s)
                           /\ EnrolledStudent(u, assignments[submissions[s].assignment_id].class_id)
                           /\ resp'.status = 201
                           /\ \E r \in DOMAIN peer_reviews' \ DOMAIN peer_reviews :
                                 /\ DOMAIN peer_reviews' = DOMAIN peer_reviews \cup {r}
                                 /\ peer_reviews'[r].reviewer_id = u
                                 /\ peer_reviews'[r].submission_id = s]_vars

\* a student enrolled in a class was answered 404 for an existing submission of
\* another student that belongs to the other class
C22_Witness ==
    /\ resp.op = "create_peer_review"
    /\ resp.status = 404
    /\ DOMAIN classes = ClassIds
    /\ DOMAIN submissions = SubmissionIds
    /\ \E u \in DOMAIN users, c \in ClassIds :
          /\ EnrolledStudent(u, c)
          /\ \A s \in SubmissionIds :
                /\ submissions[s].student_id # u
                /\ assignments[submissions[s].assignment_id].class_id # c
          /\ \A v \in DOMAIN users : v # u => \A k \in ClassIds : ~EnrolledStudent(v, k)

(* ------------------------------- C23 ---------------------------------- *)
\* u is the student who authored submission s, and the path names the class and
\* assignment of s
AuthorOnChain(u, c, a, s) ==
    /\ IsStudent(u)
    /\ RealChain(c, a, s)
    /\ submissions[s].student_id = u

\* the reviews of submission s in table t
ReviewsOn(t, s) == {r \in DOMAIN t : t[r].submission_id = s}

\* C23: update_submission and delete_submission answer 200 exactly when the
\* submission exists under the class and assignment of the path and the caller is
\* the student who authored it, enrolled or not; another student naming the real
\* path is answered 403; every answer other than 200 leaves the store as it was; a
\* successful delete_submission removes the submission and exactly its reviews; and
\* no update_submission or delete_submission by anyone else changes a submission or
\* a review.
C23_AuthorOnly ==
    [][/\ resp'.op \in {"update_submission", "delete_submission"}
          => \A u \in UserIds, c \in ClassIds, a \in AssignmentIds, s \in SubmissionIds :
               /\ \A d \in UpdateBodies :
                     UpdateSubmission(u, c, a, s, d)
                     => /\ resp'.status = 200 <=> AuthorOnChain(u, c, a, s)
                        /\ (IsStudent(u) /\ RealChain(c, a, s) /\ submissions[s].student_id # u)
                              => resp'.status = 403
                        /\ resp'.status # 200 => UNCHANGED db
                        /\ peer_reviews' = peer_reviews
               /\ DeleteSubmission(u, c, a, s)
                     => /\ resp'.status = 200 <=> AuthorOnChain(u, c, a, s)
                        /\ (IsStudent(u) /\ RealChain(c, a, s) /\ submissions[s].student_id # u)
                              => resp'.status = 403
                        /\ resp'.status # 200 => UNCHANGED db
                        /\ resp'.status = 200
                              => /\ DOMAIN submissions' = DOMAIN submissions \ {s}
                                 /\ \A x \in DOMAIN submissions' : submissions'[x] = submissions[x]
                                 /\ DOMAIN peer_reviews' = DOMAIN peer_reviews \ ReviewsOn(peer_reviews, s)
                                 /\ \A r \in DOMAIN peer_reviews' : peer_reviews'[r] = peer_reviews[r]
       /\ (submissions' # submissions \/ peer_reviews' # peer_reviews)
          => \A u \in UserIds, c \in ClassIds, a \in AssignmentIds, s \in SubmissionIds :
               ((\E d \in UpdateBodies : UpdateSubmission(u, c, a, s, d))
                  \/ DeleteSubmission(u, c, a, s))
               => AuthorOnChain(u, c, a, s)]_vars

\* the author of a reviewed submission edited it after leaving the class
C23_Witness ==
    /\ resp.op = "update_submission"
    /\ resp.status = 200
    /\ \E s \in DOMAIN submissions :
          /\ submissions[s].submitted_at = clock - 1
          /\ \A c \in ClassIds : ~EnrolledStudent(submissions[s].student_id, c)
          /\ ReviewsOn(peer_reviews, s) # {}

(* ------------------------------- C28 ---------------------------------- *)
\* a successful update_submission of s with body d
Resubmitted(u, c, a, s, d) ==
    /\ resp'.op = "update_submission"
    /\ resp'.status = 200
    /\ UpdateSubmission(u, c, a, s, d)

\* C28: a successful update_submission sets content, file_name and file_size to
\* what the request carries for them (the content without surrounding whitespace,
\* null when blank), keeps each of the three that the request does not carry, sets
\* submitted_at to the current time, and changes nothing else: not the grade,
\* feedback, graded_at, student_id or assignment_id of the submission, no other
\* submission and no peer review.
C28_ResubmitKeepsGradeAndReviews ==
    [][resp'.op = "update_submission" /\ resp'.status = 200
       => \A u \in UserIds, c \in ClassIds, a \in AssignmentIds, s \in SubmissionIds,
             d \in UpdateBodies :
               Resubmitted(u, c, a, s, d)
               => /\ submissions'[s].content =
                        IF "content" \in DOMAIN d
                        THEN (IF Strip(d.content) = <<>> THEN {} ELSE {Strip(d.content)})
                        ELSE submissions[s].content
                  /\ submissions'[s].file_name =
                        IF "fileName" \in DOMAIN d THEN {d.fileName} ELSE submissions[s].file_name
                  /\ submissions'[s].file_size =
                        IF "fileSize" \in DOMAIN d THEN {d.fileSize} ELSE submissions[s].file_size
                  /\ submissions'[s].submitted_at = clock
                  /\ submissions'[s].grade = submissions[s].grade
                  /\ submissions'[s].feedback = submissions[s].feedback
                  /\ submissions'[s].graded_at = submissions[s].graded_at
                  /\ submissions'[s].student_id = submissions[s].student_id
                  /\ submissions'[s].assignment_id = submissions[s].assignment_id
                  /\ DOMAIN submissions' = DOMAIN submissions
                  /\ \A x \in DOMAIN submissions \ {s} : submissions'[x] = submissions[x]
                  /\ peer_reviews' = peer_reviews]_vars

\* a graded and reviewed submission was edited after it was graded, and holds its
\* grade, its feedback and its review
C28_Witness ==
    /\ resp.op = "update_submission"
    /\ resp.status = 200
    /\ \E s \in DOMAIN submissions :
          /\ submissions[s].grade = {<<"B">>}
          /\ submissions[s].feedback = {<<"o", "k">>}
          /\ \E g \in submissions[s].graded_at : submissions[s].submitted_at > g
          /\ submissions[s].file_name = {<<"f">>}
          /\ ReviewsOn(peer_reviews, s) # {}

(* ------------------------------- C24 ---------------------------------- *)
\* u is the teacher who owns the existing class c
OwnsClass(u, c) == IsTeacher(u) /\ c \in DOMAIN classes /\ classes[c].owner_id = u

\* every assignment of the old table other than those in `but` is in the new table
\* as it was
SameAssignments(but) ==
    \A x \in DOMAIN assignments \ but :
        x \in DOMAIN assignments' /\ assignments'[x] = assignments[x]

\* C24: create_assignment, update_assignment and delete_assignment answer 403 to a
\* teacher who does not own the existing class of the path; whenever one of them
\* does not answer 201 or 200 the store is as it was; and whenever one of them
\* succeeds or changes the assignments, the caller is the teacher who owns the class
\* of the path, for update and delete the assignment is one of that class, and no
\* other assignment is created, changed or deleted.
C24_AssignmentsByOwnerOnly ==
    [][/\ resp'.op \in {"create_assignment", "update_assignment", "delete_assignment"}
          => \A u \in UserIds, c \in ClassIds :
               /\ \A d \in AssignmentBodies :
                     CreateAssignment(u, c, d)
                     => /\ (IsTeacher(u) /\ c \in DOMAIN classes /\ ~OwnsClass(u, c))
                              => resp'.status = 403
                        /\ resp'.status # 201 => UNCHANGED db
                        /\ resp'.status = 201
                              => /\ OwnsClass(u, c)
                                 /\ SameAssignments({})
                                 /\ \E n \in AssignmentIds \ DOMAIN assignments :
                                       /\ DOMAIN assignments' = DOMAIN assignments \cup {n}
                                       /\ assignments'[n].class_id = c
               /\ \A a \in AssignmentIds :
                     /\ \A d \in UpdateAssignmentBodies :
                           UpdateAssignment(u, c, a, d)
                           => /\ (IsTeacher(u) /\ c \in DOMAIN classes /\ ~OwnsClass(u, c))
                                    => resp'.status = 403
                              /\ resp'.status # 200 => UNCHANGED db
                              /\ resp'.status = 200
                                    => /\ OwnsClass(u, c)
                                       /\ AssignmentOf(a, c)
                                       /\ SameAssignments({a})
                                       /\ DOMAIN assignments' = DOMAIN assignments
                                       /\ assignments'[a].class_id = c
                     /\ DeleteAssignment(u, c, a)
                           => /\ (IsTeacher(u) /\ c \in DOMAIN classes /\ ~OwnsClass(u, c))
                                    => resp'.status = 403
                              /\ resp'.status # 200 => UNCHANGED db
                              /\ resp'.status = 200
                                    => /\ OwnsClass(u, c)
                                       /\ AssignmentOf(a, c)
                                       /\ SameAssignments({a})
                                       /\ DOMAIN assignments' = DOMAIN assignments \ {a}
       /\ assignments' # assignments
          => \A u \in UserIds, c \in ClassIds :
               /\ (\E d \in AssignmentBodies : CreateAssignment(u, c, d)) => OwnsClass(u, c)
               /\ \A a \in AssignmentIds :
                     ((\E d \in UpdateAssignmentBodies : UpdateAssignment(u, c, a, d))
                        \/ DeleteAssignment(u, c, a))
                     => OwnsClass(u, c) /\ AssignmentOf(a, c)]_vars

\* with two teachers, each owning a class, and an assignment in each class, an
\* update_assignment was answered 403: its caller was a teacher who does not own
\* the class named
C24_Witness ==
    /\ resp.op = "update_assignment"
    /\ resp.status = 403
    /\ DOMAIN classes = ClassIds
    /\ \E c1, c2 \in ClassIds : classes[c1].owner_id # classes[c2].owner_id
    /\ DOMAIN assignments = AssignmentIds
    /\ \E a1, a2 \in AssignmentIds : assignments[a1].class_id # assignments[a2].class_id

(* ------------------------------- C27 ---------------------------------- *)
\* the tokens created so far
Created == {[jti |-> k, sub |-> issued[k].sub, type |-> issued[k].type] : k \in DOMAIN issued}

\* the refresh token created by the login or registration that created access
\* token a, as a set of at most one token
RefreshOf(a) == {r \in Created : r.type = "refresh" /\ r.jti = a.jti + 1}

\* C27: the revocation set changes only by a logout answered 200, which adds the
\* identifier of the access token presented and nothing else, and changes neither
\* the store nor the tokens; a request that presents an access token whose
\* identifier is not in the revocation set reaches its view; and a refresh that
\* presents a refresh token, the one created together with a revoked access token
\* included, is answered 200 and creates an access token for the same subject
\* whose identifier is not in the revocation set.
C27_LogoutRevokesOneToken ==
    [][/\ BLOCKLIST' # BLOCKLIST
          => /\ resp'.op = "logout"
             /\ resp'.status = 200
             /\ UNCHANGED <<db, issued>>
             /\ \E tok \in Created :
                   /\ tok.type = "access"
                   /\ logout(tok)
                   /\ BLOCKLIST' = BLOCKLIST \cup {tok.jti}
                   /\ \A other \in Created \ {tok} :
                         other.jti \in BLOCKLIST' <=> other.jti \in BLOCKLIST
                   /\ \A r \in RefreshOf(tok) : r.jti \notin BLOCKLIST'
       /\ \A tok \in Created, req \in SessionRequests :
             (tok.type = "access" /\ tok.jti \notin BLOCKLIST /\ Authenticated(tok, req))
             => resp'.op = req.op /\ resp'.status = 200
       /\ \A tok \in Created :
             (tok.type = "refresh" /\ refresh(tok))
             => /\ resp'.op = "refresh"
                /\ resp'.status = 200
                /\ BLOCKLIST' = BLOCKLIST
                /\ Len(issued') = Len(issued) + 1
                /\ SubSeq(issued', 1, Len(issued)) = issued
                /\ issued'[Len(issued')] = [sub |-> tok.sub, type |-> "access"]
                /\ Len(issued') \notin BLOCKLIST']_vars

\* after a login, a logout with its access token and a refresh with its refresh
\* token, a get_session was answered 200: it carried the access token the refresh
\* created, the only token of the three that is an access token and is not revoked
C27_Witness ==
    /\ resp.op = "get_session"
    /\ resp.status = 200
    /\ BLOCKLIST = {1}
    /\ Len(issued) = 3
    /\ issued[1].type = "access"
    /\ issued[2].type = "refresh"
    /\ issued[3].type = "access"

(* ------------------------------- C26 ---------------------------------- *)
\* what get_pending_reviews lists for u: nothing when it does not answer 200
Listed(u) == IF GetPendingReviewsStatus(u) = 200 THEN PendingReviews(u) ELSE {}

\* C26: whenever a create_peer_review by u on an existing submission x, named with
\* the assignment of x and the class of that assignment and carrying a content
\* field, is served, it is answered 201 exactly when x is among the submissions
\* get_pending_reviews lists for u in the state it is served in.
C26_PendingIffReviewable ==
    [][resp'.op \in {"create_peer_review", "student_required"}
       => \A u \in UserIds, x \in DOMAIN submissions, d \in ReviewBodies :
            CreatePeerReview(u, assignments[submissions[x].assignment_id].class_id,
                             submissions[x].assignment_id, x, d)
            => (resp'.status = 201 <=> x \in Listed(u))]_vars

\* a review was stored: its submission is no longer listed for its reviewer, and
\* another student still has a submission listed
C26_Witness ==
    /\ resp.op = "create_peer_review"
    /\ resp.status = 201
    /\ \E r \in DOMAIN peer_reviews :
          /\ peer_reviews[r].submission_id \notin Listed(peer_reviews[r].reviewer_id)
          /\ \E v \in DOMAIN users \ {peer_reviews[r].reviewer_id} : Listed(v) # {}

(* ------------------------------- C25 ---------------------------------- *)
ErrorStatuses == {400, 401, 403, 404, 409, 500}

====
